---- MODULE Spec2Model ----
(***************************************************************************)
(* A model of the AnatomyGuru feedback streamliner: the serverless         *)
(* evaluate handler (src/netlify/functions/evaluate.js), the browser       *)
(* client generateStructuredFeedback (src/services/geminiService.ts), the  *)
(* sanitization of the model's output, and the App component with          *)
(* processFile and handleAnalyze (src/App.tsx).                            *)
(***************************************************************************)
EXTENDS Integers, Sequences, FiniteSets, TLC

(***************************************************************************)
(* JavaScript values.  Every value is a record tagged with its type, so    *)
(* that values of different types can be compared.  A string is one of     *)
(* three kinds: a literal (field s), a text given character by character   *)
(* (field chars, the model's output) and the JSON serialisation of a value *)
(* (field json).                                                           *)
(***************************************************************************)
Undefined == [type |-> "undefined"]

Null == [type |-> "null"]

Bool(b) == [type |-> "boolean", b |-> b]

Str(s) == [type |-> "string", s |-> s]

Text(cs) == [type |-> "string", chars |-> cs]

JSONText(v) == [type |-> "string", json |-> v]

Arr(items) == [type |-> "array", items |-> items]

Obj(fields) == [type |-> "object", fields |-> fields]

ErrorObj(name, message) == [type |-> "Error", name |-> name, message |-> message]

EmptyObject == Obj([k \in {} |-> Undefined])

IsJSONText(v) == v.type = "string" /\ "json" \in DOMAIN v

\* JavaScript truthiness: undefined, null, false and the empty string are falsy.
Truthy(v) ==
  CASE v.type \in {"undefined", "null"} -> FALSE
    [] v.type = "boolean" -> v.b
    [] v.type = "string" /\ "s" \in DOMAIN v -> v.s # ""
    [] v.type = "string" /\ "chars" \in DOMAIN v -> v.chars # <<>>
    [] OTHER -> TRUE

\* a || b
Or(a, b) == IF Truthy(a) THEN a ELSE b

\* v.f: a property read.  Reading a property of undefined or null throws a
\* TypeError; the callers check for that case before they use Get.
Get(v, f) ==
  CASE v.type = "object" /\ f \in DOMAIN v.fields -> v.fields[f]
    [] v.type = "Error" /\ f = "message" -> Str(v.message)
    [] OTHER -> Undefined

\* JSON.stringify of an object: fields whose value is undefined are left out.
JSONStringify(v) ==
  IF v.type = "object"
    THEN JSONText(Obj([k \in {f \in DOMAIN v.fields : v.fields[f] # Undefined} |-> v.fields[k]]))
    ELSE JSONText(v)

(***************************************************************************)
(* Texts given character by character: the model's output.                 *)
(***************************************************************************)
NL == "\n"

\* The backtick character, written as a word.
Backtick == "backtick"

Fence == <<Backtick, Backtick, Backtick>>

JsonTag == <<"j", "s", "o", "n">>

\* The characters String.prototype.trim removes and JSON allows between tokens.
Whitespace == {" ", NL}

Digits == {"1"}

StartsWith(s, p) == Len(s) >= Len(p) /\ SubSeq(s, 1, Len(p)) = p

EndsWith(s, p) == Len(s) >= Len(p) /\ SubSeq(s, Len(s) - Len(p) + 1, Len(s)) = p

RECURSIVE TrimStart(_)
TrimStart(s) == IF s # <<>> /\ Head(s) \in Whitespace THEN TrimStart(Tail(s)) ELSE s

RECURSIVE TrimEnd(_)
TrimEnd(s) ==
  IF s # <<>> /\ s[Len(s)] \in Whitespace THEN TrimEnd(SubSeq(s, 1, Len(s) - 1)) ELSE s

\* String.prototype.trim
Trim(s) == TrimEnd(TrimStart(s))

NoValue == [ok |-> FALSE, value |-> Undefined, next |-> 0]

\* The index of the first character at or after i that is not whitespace.
RECURSIVE SkipWhitespace(_, _)
SkipWhitespace(s, i) ==
  IF i <= Len(s) /\ s[i] \in Whitespace THEN SkipWhitespace(s, i + 1) ELSE i

\* The index after the digits that start at i.
RECURSIVE ScanDigits(_, _)
ScanDigits(s, i) ==
  IF i <= Len(s) /\ s[i] \in Digits THEN ScanDigits(s, i + 1) ELSE i

\* The index of the quote that closes the string whose content starts at i;
\* 0 when the string is not closed or holds a raw line break.
RECURSIVE ScanString(_, _)
ScanString(s, i) ==
  IF i > Len(s) \/ s[i] = NL THEN 0
  ELSE IF s[i] = "\"" THEN i
  ELSE ScanString(s, i + 1)

NullLiteral == <<"n", "u", "l", "l">>

\* The JSON value that starts at index i of s, and the index after it.
RECURSIVE ParseValue(_, _)
RECURSIVE ParseElements(_, _, _)
ParseValue(s, i) ==
  IF i > Len(s) THEN NoValue
  ELSE CASE s[i] \in Digits ->
              LET j == ScanDigits(s, i)
              IN [ok |-> TRUE, value |-> [type |-> "number", digits |-> SubSeq(s, i, j - 1)], next |-> j]
         [] s[i] = "\"" ->
              LET j == ScanString(s, i + 1)
              IN IF j = 0 THEN NoValue
                 ELSE [ok |-> TRUE, value |-> Text(SubSeq(s, i + 1, j - 1)), next |-> j + 1]
         [] s[i] = "[" ->
              LET k == SkipWhitespace(s, i + 1)
              IN IF k <= Len(s) /\ s[k] = "]"
                   THEN [ok |-> TRUE, value |-> Arr(<<>>), next |-> k + 1]
                   ELSE ParseElements(s, k, <<>>)
         [] s[i] = "{" ->
              LET k == SkipWhitespace(s, i + 1)
              IN IF k <= Len(s) /\ s[k] = "}"
                   THEN [ok |-> TRUE, value |-> EmptyObject, next |-> k + 1]
                   ELSE NoValue
         [] s[i] = "n" ->
              IF i + 3 <= Len(s) /\ SubSeq(s, i, i + 3) = NullLiteral
                THEN [ok |-> TRUE, value |-> Null, next |-> i + 4]
                ELSE NoValue
         [] OTHER -> NoValue

\* The elements of an array from index i on, after the elements in acc.
ParseElements(s, i, acc) ==
  LET v == ParseValue(s, i)
  IN IF ~v.ok THEN NoValue
     ELSE LET k == SkipWhitespace(s, v.next)
          IN IF k > Len(s) THEN NoValue
             ELSE IF s[k] = "]"
               THEN [ok |-> TRUE, value |-> Arr(Append(acc, v.value)), next |-> k + 1]
             ELSE IF s[k] = ","
               THEN ParseElements(s, SkipWhitespace(s, k + 1), Append(acc, v.value))
             ELSE NoValue

\* JSON.parse of a text given character by character: one value, with
\* whitespace allowed around it and nothing else after it.
JSONParseText(s) ==
  LET v == ParseValue(s, SkipWhitespace(s, 1))
  IN IF v.ok /\ SkipWhitespace(s, v.next) > Len(s)
       THEN [ok |-> TRUE, value |-> v.value]
       ELSE [ok |-> FALSE, value |-> ErrorObj("SyntaxError", "Unexpected token")]

\* JSON.parse: the value a JSON text denotes, a SyntaxError for any other string.
JSONParse(s) ==
  IF IsJSONText(s)
    THEN [ok |-> TRUE, value |-> s.json]
  ELSE IF s.type = "string" /\ "chars" \in DOMAIN s
    THEN JSONParseText(s.chars)
  ELSE [ok |-> FALSE, value |-> ErrorObj("SyntaxError", "Unexpected end of JSON input")]

(***************************************************************************)
(* The evaluate handler.                                                   *)
(***************************************************************************)
NumInvocations == 2

Invocations == 1..NumInvocations

TIMEOUT_MS == 8000

TimeoutMessage == "AI evaluation timed out after 8 seconds"

Methods == {"POST", "GET", "OPTIONS"}

\* A prompt as the client sends it: a list of parts.
SamplePrompt == Arr(<<[text |-> "instructions"], [text |-> "Student Paper Text: abc"]>>)

\* The request bodies the handler is called with: none, the empty string,
\* text that is not JSON, and JSON texts of several shapes.
EventBodies ==
  { Undefined, Str(""), Str("{not json"),
    JSONText(Null),
    JSONText(Str("prompt")),
    JSONText(EmptyObject),
    JSONText(Obj([prompt |-> Null])),
    JSONText(Obj([prompt |-> Str("")])),
    JSONText(Obj([sourceDoc |-> Str("doc"), mode |-> Str("with-manual")])),
    JSONText(Obj([prompt |-> SamplePrompt])) }

Events == [httpMethod : Methods, body : EventBodies]

NoEvent == [httpMethod |-> "", body |-> Undefined]

\* process.env.API_KEY: unset, empty, or a key.
ApiKeys == {Undefined, Str(""), Str("secret-key")}

\* What ai.models.generateContent fulfils with: a response object whose text
\* getter gives a string or undefined, or no object at all.
ModelTexts == {Undefined, Text(<<>>), Text(<<"{", "}">>), Text(<<"o", "k">>)}

GenerationResponses == {Undefined} \cup {Obj([text |-> t]) : t \in ModelTexts}

\* What ai.models.generateContent rejects with: any thrown value.
ThrownValues ==
  { ErrorObj("ApiError", "quota exceeded"), ErrorObj("Error", ""),
    Str("network down"), Null, Undefined }

\* A response of the handler.  Its headers are left out: they are always
\* Content-Type: application/json.
Response(statusCode, envelope) ==
  [statusCode |-> statusCode, body |-> JSONStringify(Obj(envelope))]

ErrorEnvelope(message) == [success |-> Bool(FALSE), error |-> message]

SuccessEnvelope(output) == [success |-> Bool(TRUE), output |-> output]

\* The outcome of a stretch of the handler: it returns a response, it throws
\* out of the handler (the handler's promise rejects), or it awaits the race.
Returns(r) == [kind |-> "return", response |-> r, prompt |-> Undefined]

Throws == [kind |-> "throw", response |-> Response(0, ErrorEnvelope(Undefined)), prompt |-> Undefined]

Awaits(prompt) == [kind |-> "await", response |-> Response(0, ErrorEnvelope(Undefined)), prompt |-> prompt]

\* The catch block without the fallback message: error: err.message.
CatchBlock_NoFallback(err) ==
  IF err.type \in {"undefined", "null"}
    THEN Throws
    ELSE Returns(Response(200, ErrorEnvelope(Get(err, "message"))))

\* catch (err) { ... err.message || "Internal Server Error" ... }
\* Reading err.message throws a TypeError when err is undefined or null, and
\* nothing catches it.
CatchBlock(err) ==
  IF err.type \in {"undefined", "null"}
    THEN Throws
    ELSE Returns(Response(200, ErrorEnvelope(Or(Get(err, "message"), Str("Internal Server Error")))))

\* The handler answering an OPTIONS request as a preflight, before the check
\* of the method.
HandlerEntry_Preflight(ev, key) ==
  IF ev.httpMethod = "OPTIONS"
    THEN Returns(Response(200, ErrorEnvelope(Undefined)))
  ELSE IF ev.httpMethod # "POST"
    THEN Returns(Response(405, ErrorEnvelope(Str("Method Not Allowed"))))
  ELSE IF ~Truthy(key)
    THEN Returns(Response(200, ErrorEnvelope(Str("GEMINI_API_KEY (API_KEY) is not configured in the environment."))))
  ELSE LET parsed == JSONParse(Or(ev.body, JSONText(EmptyObject)))
       IN IF ~parsed.ok
            THEN CatchBlock(parsed.value)
          ELSE IF parsed.value.type \in {"undefined", "null"}
            THEN CatchBlock(ErrorObj("TypeError", "Cannot destructure property 'prompt' of 'body' as it is null."))
          ELSE IF ~Truthy(Get(parsed.value, "prompt"))
            THEN Returns(Response(200, ErrorEnvelope(Str("Missing 'prompt' in request body."))))
          ELSE Awaits(Get(parsed.value, "prompt"))

\* The handler without the check of the prompt.
HandlerEntry_NoPromptCheck(ev, key) ==
  IF ev.httpMethod # "POST"
    THEN Returns(Response(405, ErrorEnvelope(Str("Method Not Allowed"))))
  ELSE IF ~Truthy(key)
    THEN Returns(Response(200, ErrorEnvelope(Str("GEMINI_API_KEY (API_KEY) is not configured in the environment."))))
  ELSE LET parsed == JSONParse(Or(ev.body, JSONText(EmptyObject)))
       IN IF ~parsed.ok
            THEN CatchBlock(parsed.value)
          ELSE IF parsed.value.type \in {"undefined", "null"}
            THEN CatchBlock(ErrorObj("TypeError", "Cannot destructure property 'prompt' of 'body' as it is null."))
          ELSE Awaits(Get(parsed.value, "prompt"))

\* The handler from its entry to the await of the race.
HandlerEntry(ev, key) ==
  IF ev.httpMethod # "POST"
    THEN Returns(Response(405, ErrorEnvelope(Str("Method Not Allowed"))))
  ELSE IF ~Truthy(key)
    THEN Returns(Response(200, ErrorEnvelope(Str("GEMINI_API_KEY (API_KEY) is not configured in the environment."))))
  ELSE LET parsed == JSONParse(Or(ev.body, JSONText(EmptyObject)))
       IN IF ~parsed.ok
            THEN CatchBlock(parsed.value)
          ELSE IF parsed.value.type \in {"undefined", "null"}
            THEN CatchBlock(ErrorObj("TypeError", "Cannot destructure property 'prompt' of 'body' as it is null."))
          ELSE IF ~Truthy(Get(parsed.value, "prompt"))
            THEN Returns(Response(200, ErrorEnvelope(Str("Missing 'prompt' in request body."))))
          ELSE Awaits(Get(parsed.value, "prompt"))

\* The rejection of timeoutPromise.
TimeoutError == ErrorObj("Error", TimeoutMessage)

\* generationPromise: how the async function around generateContent settles,
\* given how generateContent settled.  response.text throws a TypeError when
\* generateContent fulfilled with no object.
GenerationPromise(outcome) ==
  IF outcome.state = "fulfilled"
    THEN IF outcome.value.type \in {"undefined", "null"}
           THEN [state |-> "rejected", value |-> ErrorObj("TypeError", "Cannot read properties of undefined (reading 'text')")]
           ELSE [state |-> "fulfilled", value |-> Get(outcome.value, "text")]
    ELSE [state |-> "rejected", value |-> outcome.value]

\* The handler after the await: the race fulfilled or rejected.
AfterRace(settlement) ==
  IF settlement.state = "fulfilled"
    THEN Returns(Response(200, SuccessEnvelope(settlement.value)))
    ELSE CatchBlock(settlement.value)

(***************************************************************************)
(* The client: generateStructuredFeedback.                                 *)
(***************************************************************************)
Modes == {"with-manual", "without-manual"}

\* The documents processFile hands to the client: extracted text (possibly
\* empty), or base64 data with the file's MIME type (possibly empty).
FileDatas ==
  { Obj([text |-> Str("answers"), name |-> Str("paper.pdf"), isDocx |-> Bool(FALSE)]),
    Obj([text |-> Str(""), name |-> Str("paper.docx"), isDocx |-> Bool(TRUE)]),
    Obj([base64 |-> Str("QUJD"), mimeType |-> Str("image/png"), name |-> Str("scan.png"), isDocx |-> Bool(FALSE)]),
    Obj([base64 |-> Str("QUJD"), mimeType |-> Str(""), name |-> Str("scan"), isDocx |-> Bool(FALSE)]) }

\* A text part made by a template string: the fixed wording and the value
\* embedded in it.
TextPart(label, content) == [text |-> [label |-> label, content |-> content]]

InlineDataPart(data, mimeType) == [inlineData |-> [data |-> data, mimeType |-> mimeType]]

\* The part a document contributes to the prompt, as a list of 0 or 1 parts.
DocumentParts(doc, label) ==
  IF Truthy(Get(doc, "text"))
    THEN <<TextPart(label, Get(doc, "text").s)>>
  ELSE IF Truthy(Get(doc, "base64")) /\ Truthy(Get(doc, "mimeType"))
    THEN <<InlineDataPart(Get(doc, "base64").s, Get(doc, "mimeType").s)>>
  ELSE <<>>

\* promptParts with the faculty notes added in every mode.
PromptParts_FacultyAnyMode(sourceDoc, dirtyFeedbackDoc, mode) ==
  <<TextPart("systemInstructions MODE: ", mode)>>
    \o DocumentParts(sourceDoc, "Student Paper Text: ")
    \o (IF Truthy(dirtyFeedbackDoc)
          THEN DocumentParts(dirtyFeedbackDoc, "Faculty Notes Text: ")
          ELSE <<>>)
    \o <<TextPart("Based on the provided medical evaluation documents, generate the comprehensive evaluation report JSON.", "")>>

\* promptParts: the instructions with the mode, the source document, the
\* faculty notes in 'with-manual' mode, the closing instruction.
PromptParts(sourceDoc, dirtyFeedbackDoc, mode) ==
  <<TextPart("systemInstructions MODE: ", mode)>>
    \o DocumentParts(sourceDoc, "Student Paper Text: ")
    \o (IF mode = "with-manual" /\ Truthy(dirtyFeedbackDoc)
          THEN DocumentParts(dirtyFeedbackDoc, "Faculty Notes Text: ")
          ELSE <<>>)
    \o <<TextPart("Based on the provided medical evaluation documents, generate the comprehensive evaluation report JSON.", "")>>

EvaluateUrl == "/.netlify/functions/evaluate"

\* A client that puts the documents and the mode into the body as fields.
FetchRequest_DocumentFields(sourceDoc, dirtyFeedbackDoc, mode) ==
  [url |-> EvaluateUrl,
   method |-> "POST",
   body |-> JSONStringify(Obj([sourceDoc |-> sourceDoc,
                               dirtyFeedbackDoc |-> dirtyFeedbackDoc,
                               mode |-> Str(mode)]))]

\* The request the client sends with fetch.
FetchRequest(sourceDoc, dirtyFeedbackDoc, mode) ==
  [url |-> EvaluateUrl,
   method |-> "POST",
   body |-> JSONStringify(Obj([prompt |-> Arr(PromptParts(sourceDoc, dirtyFeedbackDoc, mode))]))]

NoRequest == [url |-> "", method |-> "", body |-> Undefined]

\* The opening fence with the tag json required.
ReplaceOpeningFence_TagRequired(s) ==
  IF StartsWith(s, Fence \o JsonTag)
    THEN LET b == SubSeq(s, Len(Fence) + Len(JsonTag) + 1, Len(s))
         IN IF StartsWith(b, <<NL>>) THEN Tail(b) ELSE b
    ELSE s

\* cleanOutput.replace(/^```(json)?\n?/, ''): three backticks at the start,
\* then the tag json if it is there, then a line break if it is there.
ReplaceOpeningFence(s) ==
  IF StartsWith(s, Fence)
    THEN LET a == SubSeq(s, Len(Fence) + 1, Len(s))
             b == IF StartsWith(a, JsonTag) THEN SubSeq(a, Len(JsonTag) + 1, Len(a)) ELSE a
         IN IF StartsWith(b, <<NL>>) THEN Tail(b) ELSE b
    ELSE s

\* .replace(/\n?```$/, ''): three backticks at the very end, with the line
\* break before them if there is one.
ReplaceClosingFence(s) ==
  IF EndsWith(s, Fence)
    THEN LET a == SubSeq(s, 1, Len(s) - Len(Fence))
         IN IF EndsWith(a, <<NL>>) THEN SubSeq(a, 1, Len(a) - 1) ELSE a
    ELSE s

\* The two replacements applied whether the output starts with a fence or not.
CleanOutput_AlwaysReplace(output) ==
  ReplaceClosingFence(ReplaceOpeningFence(Trim(output)))

\* cleanOutput: the output trimmed, and without its fences if it starts with one.
CleanOutput(output) ==
  LET trimmed == Trim(output)
  IN IF StartsWith(trimmed, Fence)
       THEN ReplaceClosingFence(ReplaceOpeningFence(trimmed))
       ELSE trimmed

InvalidReportFormat == ErrorObj("Error", "AI returned an invalid report format. Please try again.")

\* The inner try block without its catch: the error of trim or JSON.parse
\* goes to the outer catch block as it is.
ParseReport_NoInnerCatch(output) ==
  IF output.type # "string" \/ "chars" \notin DOMAIN output
    THEN [ok |-> FALSE, value |-> ErrorObj("TypeError", "Cannot read properties of undefined (reading 'trim')")]
    ELSE JSONParseText(CleanOutput(output.chars))

\* The inner try block: data.output is trimmed, stripped and parsed; whatever
\* goes wrong (output not a string, text not JSON) becomes one Error.
ParseReport(output) ==
  IF output.type # "string" \/ "chars" \notin DOMAIN output
    THEN [ok |-> FALSE, value |-> InvalidReportFormat]
    ELSE LET parsed == JSONParseText(CleanOutput(output.chars))
         IN IF parsed.ok THEN parsed ELSE [ok |-> FALSE, value |-> InvalidReportFormat]

\* The outer catch block throwing its own message whatever the error.
Rethrow_Generic(err) ==
  [state |-> "rejected",
   value |-> ErrorObj("Error", "An unexpected error occurred during processing.")]

\* catch (error) { throw new Error(error.message || "An unexpected error ...") }
Rethrow(err) ==
  [state |-> "rejected",
   value |-> ErrorObj("Error", Or(Get(err, "message"), Str("An unexpected error occurred during processing.")).s)]

\* The client from the arrival of the HTTP response to the settlement of its
\* promise.
AfterFetch(response) ==
  LET data == JSONParse(response.body)
      ok == response.statusCode >= 200 /\ response.statusCode <= 299
  IN IF ~data.ok
       THEN Rethrow(data.value)
     ELSE IF data.value.type \in {"undefined", "null"}
       THEN Rethrow(ErrorObj("TypeError", "Cannot read properties of null (reading 'success')"))
     ELSE IF ~ok \/ ~Truthy(Get(data.value, "success"))
       THEN Rethrow(ErrorObj("Error", Or(Get(data.value, "error"), Str("Analysis failed on server.")).s))
     ELSE LET report == ParseReport(Get(data.value, "output"))
          IN IF report.ok
               THEN [state |-> "resolved", value |-> report.value]
               ELSE Rethrow(report.value)

(***************************************************************************)
(* The model's output, for the sanitization taken by itself.               *)
(***************************************************************************)
MaxJsonLen == 4

JsonAlphabet == {"1", "\"", Backtick, "[", "]", ",", "{", "}", " ", NL}

\* Every valid JSON text of at most MaxJsonLen characters.
ValidJsonTexts ==
  {s \in UNION {[1..n -> JsonAlphabet] : n \in 0..MaxJsonLen} : JSONParseText(s).ok}

\* Whitespace around the whole output.
Paddings == {<<>>, <<" ">>, <<NL>>, <<NL, " ">>}

\* A JSON text in a markdown fence: an opening line of three backticks with or
\* without the tag json, the text, a closing line of three backticks, and
\* whitespace around the whole.
FencedOutput(json, tagged, leading, trailing) ==
  leading \o Fence \o (IF tagged THEN JsonTag ELSE <<>>) \o <<NL>>
    \o json \o <<NL>> \o Fence \o trailing

NoReport == [ok |-> FALSE, value |-> Undefined]

MaxOutputLen == 4

OutputAlphabet == {Backtick, NL, " ", "1", "[", "]"}

\* Every text of at most MaxOutputLen characters: JSON and other text, with
\* and without backticks and whitespace.
ShortOutputs == UNION {[1..n -> OutputAlphabet] : n \in 0..MaxOutputLen}

\* A JSON text in a fence tagged with another language.
OtherTagOutputs ==
  {Fence \o <<"j", "s", NL>> \o json \o <<NL>> \o Fence : json \in ValidJsonTexts}

\* A JSON text in a fence, followed by more text.
TrailingTextOutputs ==
  {FencedOutput(json, tagged, <<>>, <<>>) \o trailing :
     json \in ValidJsonTexts, tagged \in BOOLEAN, trailing \in {<<"o", "k">>, <<NL, "o", "k">>}}

\* What data.output of a success envelope can be: no output field, a short
\* text, a JSON text in a fence, in a fence with another tag, in a fence
\* followed by text.
EnvelopeOutputs ==
  {Undefined}
    \cup {Text(s) : s \in ShortOutputs}
    \cup {Text(FencedOutput(json, tagged, <<>>, <<>>)) : json \in ValidJsonTexts, tagged \in BOOLEAN}
    \cup {Text(s) : s \in OtherTagOutputs \cup TrailingTextOutputs}

(***************************************************************************)
(* The App: the files the user chooses, processFile, and the pieces of     *)
(* handleAnalyze.                                                          *)
(***************************************************************************)
DocxMimeType == "application/vnd.openxmlformats-officedocument.wordprocessingml.document"

\* A File: its name, the extension its lower-cased name ends with, and its
\* MIME type (empty when the browser does not know the type).
Files ==
  { [name |-> "paper.docx", extension |-> ".docx", type |-> DocxMimeType],
    [name |-> "paper.pdf", extension |-> ".pdf", type |-> "application/pdf"],
    [name |-> "scan", extension |-> "", type |-> ""] }

\* No file chosen: null.
NoFile == [name |-> "", extension |-> "", type |-> "null"]

IsDocx(file) == file.extension = ".docx" \/ file.type = DocxMimeType

IsPdf(file) == file.extension = ".pdf" \/ file.type = "application/pdf"

\* text.trim().length > 150
PdfTextThreshold == 150

\* What an await of processFile settles with: mammoth's raw text, the text
\* extracted from a PDF with the length of its trimmed form, the base64 data
\* of the FileReader, a thrown error, or the FileReader's error event.
Settled(kind, text, trimmedLength, base64, thrown) ==
  [kind |-> kind, text |-> text, trimmedLength |-> trimmedLength, base64 |-> base64, thrown |-> thrown]

ProcessErrors ==
  { ErrorObj("Error", "Can't find end of central directory : is this a zip file ?"),
    ErrorObj("Error", "") }

\* The ProgressEvent the FileReader hands to onerror: an object with no message.
ReadErrorEvent == Obj([type |-> Str("error")])

StageOutcomes(stage) ==
  CASE stage = "docx" ->
         {Settled("text", t, 0, "", Undefined) : t \in {"", "answers"}}
           \cup {Settled("throw", "", 0, "", e) : e \in ProcessErrors}
    [] stage = "pdf" ->
         { Settled("text", "[P1] 150 characters", PdfTextThreshold, "", Undefined),
           Settled("text", "[P1] 151 characters", PdfTextThreshold + 1, "", Undefined) }
           \cup {Settled("throw", "", 0, "", e) : e \in ProcessErrors}
    [] OTHER ->
         { Settled("load", "", 0, "QUJD", Undefined),
           Settled("error", "", 0, "", ReadErrorEvent) }

\* The first await of processFile for a file.
FirstStage(file) ==
  IF IsDocx(file) THEN "docx" ELSE IF IsPdf(file) THEN "pdf" ELSE "reader"

\* setLoadingStep(`<label>${file.name}`)
Step(label, name) == [label |-> label, name |-> name]

NoStep == Step("", "")

StageStep(stage, file) ==
  CASE stage = "docx" -> Step("Parsing DOCX: ", file.name)
    [] stage = "pdf" -> Step("Extracting PDF: ", file.name)
    [] OTHER -> Step("Encoding Visual Data: ", file.name)

Returned(data) == [kind |-> "return", value |-> data, stage |-> ""]

Rejected(err) == [kind |-> "reject", value |-> err, stage |-> ""]

Awaiting(stage) == [kind |-> "await", value |-> Undefined, stage |-> stage]

\* processFile keeping the text of a PDF next to its base64 data.
ProcessFileStage_KeepsText(file, stage, settled) ==
  CASE stage = "docx" ->
         IF settled.kind = "throw"
           THEN Rejected(settled.thrown)
           ELSE Returned(Obj([text |-> Str(settled.text), name |-> Str(file.name), isDocx |-> Bool(TRUE)]))
    [] stage = "pdf" ->
         IF settled.kind = "text" /\ settled.trimmedLength > PdfTextThreshold
           THEN Returned(Obj([text |-> Str(settled.text), name |-> Str(file.name), isDocx |-> Bool(FALSE)]))
           ELSE Awaiting("reader")
    [] OTHER ->
         IF settled.kind = "error"
           THEN Rejected(settled.thrown)
           ELSE Returned(Obj([text |-> Str(""), base64 |-> Str(settled.base64), mimeType |-> Str(file.type),
                              name |-> Str(file.name), isDocx |-> Bool(FALSE)]))

\* processFile taking the text of a PDF from 150 characters on.
ProcessFileStage_AtLeast(file, stage, settled) ==
  CASE stage = "docx" ->
         IF settled.kind = "throw"
           THEN Rejected(settled.thrown)
           ELSE Returned(Obj([text |-> Str(settled.text), name |-> Str(file.name), isDocx |-> Bool(TRUE)]))
    [] stage = "pdf" ->
         IF settled.kind = "text" /\ settled.trimmedLength >= PdfTextThreshold
           THEN Returned(Obj([text |-> Str(settled.text), name |-> Str(file.name), isDocx |-> Bool(FALSE)]))
           ELSE Awaiting("reader")
    [] OTHER ->
         IF settled.kind = "error"
           THEN Rejected(settled.thrown)
           ELSE Returned(Obj([base64 |-> Str(settled.base64), mimeType |-> Str(file.type),
                              name |-> Str(file.name), isDocx |-> Bool(FALSE)]))

\* processFile from one await to the next: a DOCX gives its raw text; a PDF
\* gives its text when the trimmed text is longer than 150 characters, and
\* goes on to the FileReader when it is shorter or the extraction threw; the
\* FileReader gives base64 data with the file's MIME type, or rejects with
\* its error event.
ProcessFileStage(file, stage, settled) ==
  CASE stage = "docx" ->
         IF settled.kind = "throw"
           THEN Rejected(settled.thrown)
           ELSE Returned(Obj([text |-> Str(settled.text), name |-> Str(file.name), isDocx |-> Bool(TRUE)]))
    [] stage = "pdf" ->
         IF settled.kind = "text" /\ settled.trimmedLength > PdfTextThreshold
           THEN Returned(Obj([text |-> Str(settled.text), name |-> Str(file.name), isDocx |-> Bool(FALSE)]))
           ELSE Awaiting("reader")
    [] OTHER ->
         IF settled.kind = "error"
           THEN Rejected(settled.thrown)
           ELSE Returned(Obj([base64 |-> Str(settled.base64), mimeType |-> Str(file.type),
                              name |-> Str(file.name), isDocx |-> Bool(FALSE)]))

\* handleAnalyze's checks of the uploads: the message, or null when they pass.
ValidationError(source, faculty, mode) ==
  IF source = NoFile
    THEN Str("Please upload the Student Answer Sheet.")
  ELSE IF mode = "with-manual" /\ faculty = NoFile
    THEN Str("Please upload Faculty Notes for manual feedback mode.")
  ELSE Null

\* The faculty notes read in every mode.
FacultyToProcess_AnyMode(mode, faculty) == faculty

\* evalMode === 'with-manual' && dirtyFeedbackDoc ? ... : null: the faculty
\* notes handleAnalyze reads, or none.
FacultyToProcess(mode, faculty) ==
  IF mode = "with-manual" /\ faculty # NoFile THEN faculty ELSE NoFile

\* The catch block without the fallback message: setError(err.message).
CatchError_NoFallback(err) == Get(err, "message")

\* setError(err.message || "An error occurred during evaluation.")
CatchError(err) == Or(Get(err, "message"), Str("An error occurred during evaluation."))

AuditStep == Step("AI performing medical audit...", "")

\* The answers of the platform when the handler's promise rejected: a 500
\* with the error as JSON, or a 502 whose body is not JSON.
PlatformErrorResponses ==
  { [statusCode |-> 500,
     body |-> JSONText(Obj([errorType |-> Str("TypeError"),
                            errorMessage |-> Str("Cannot read properties of undefined (reading 'message')")]))],
    [statusCode |-> 502, body |-> Text(<<"o", "k">>)] }

\* Model texts that are valid JSON and denote a falsy value: null and the
\* empty string.
FalsyReportTexts == {Text(NullLiteral), Text(<<"\"", "\"">>)}

\* What generateContent fulfils with behind the App.
AppGenerationResponses ==
  GenerationResponses \cup {Obj([text |-> t]) : t \in FalsyReportTexts}

\* fetch rejects when the request does not get through.
FetchError == ErrorObj("TypeError", "Failed to fetch")

VARIABLES
  apiKey,      \* process.env.API_KEY
  event,       \* the event each invocation was called with
  pc,          \* "idle", "awaiting" (the race), "returned", "threw"
  timer,       \* the setTimeout of each invocation: state and delay
  generation,  \* the generateContent call of each invocation
  genCalls,    \* how many generateContent calls each invocation made
  race,        \* Promise.race: "pending", or which racer settled it
  responses,   \* the responses each invocation returned, in order
  cpc,         \* the client: "idle", "fetching", "resolved", "rejected"
  call,        \* the arguments generateStructuredFeedback was called with
  request,     \* the HTTP request the client sent
  fetches,     \* how many HTTP requests the client sent
  result,      \* what the client's promise settled with
  received,    \* the HTTP response fetch resolved with, if it did
  modelOutput, \* sanitization: the model's output
  jsonText,    \* sanitization: the JSON text inside the fence
  cleanOutput, \* sanitization: the output after trimming and stripping
  reportData,  \* sanitization: the result of parsing cleanOutput
  spc,         \* sanitization: "output", "parsed"
  strippedAgain, \* sanitization: cleanOutput after a second strip
  sourceDoc,        \* App: the answer sheet the user chose, or none
  dirtyFeedbackDoc, \* App: the faculty notes the user chose, or none
  evalMode,         \* App: 'with-manual' or 'without-manual'
  report,           \* App: the report, or null
  isLoading,        \* App: an analysis is running
  loadingStep,      \* App: the progress line under the spinner
  error,            \* App: the error message, or null
  view,             \* App: 'dashboard' or 'report'
  analysis,         \* App: the running handleAnalyze, its position and locals
  reportTable,      \* report view: the table FeedbackReport rendered
  wordExport        \* report view: what handleExportWord did

hvars == <<apiKey, event, pc, timer, generation, genCalls, race, responses>>

cvars == <<cpc, call, request, fetches, result, received>>

svars == <<modelOutput, jsonText, cleanOutput, reportData, spc, strippedAgain>>

avars == <<sourceDoc, dirtyFeedbackDoc, evalMode, report, isLoading, loadingStep, error, view, analysis>>

rvars == <<reportTable, wordExport>>

NoTimer == [state |-> "none", delay |-> 0]

NoGeneration == [state |-> "none", contents |-> Undefined, value |-> Undefined]

HandlerInit ==
  /\ apiKey \in ApiKeys
  /\ event = [i \in Invocations |-> NoEvent]
  /\ pc = [i \in Invocations |-> "idle"]
  /\ timer = [i \in Invocations |-> NoTimer]
  /\ generation = [i \in Invocations |-> NoGeneration]
  /\ genCalls = [i \in Invocations |-> 0]
  /\ race = [i \in Invocations |-> "pending"]
  /\ responses = [i \in Invocations |-> <<>>]

\* The handler continues with the outcome of a stretch of its code.
Continue(i, outcome) ==
  /\ pc' = [pc EXCEPT ![i] = CASE outcome.kind = "return" -> "returned"
                                [] outcome.kind = "throw" -> "threw"
                                [] OTHER -> "awaiting"]
  /\ responses' = [responses EXCEPT ![i] =
                     IF outcome.kind = "return" THEN Append(@, outcome.response) ELSE @]

\* A handler that starts the timer at its entry, before its checks.
Invoke_TimerFirst(i, ev) ==
  /\ pc[i] = "idle"
  /\ event' = [event EXCEPT ![i] = ev]
  /\ timer' = [timer EXCEPT ![i] = [state |-> "pending", delay |-> TIMEOUT_MS]]
  /\ LET outcome == HandlerEntry(ev, apiKey)
     IN /\ Continue(i, outcome)
        /\ IF outcome.kind = "await"
             THEN /\ generation' = [generation EXCEPT ![i] =
                       [state |-> "pending", contents |-> outcome.prompt, value |-> Undefined]]
                  /\ genCalls' = [genCalls EXCEPT ![i] = @ + 1]
             ELSE UNCHANGED <<generation, genCalls>>
  /\ UNCHANGED <<apiKey, race, cvars, svars, rvars, avars>>

\* The platform calls the handler: the code up to the await runs in one turn.
Invoke(i, ev) ==
  /\ pc[i] = "idle"
  /\ event' = [event EXCEPT ![i] = ev]
  /\ LET outcome == HandlerEntry(ev, apiKey)
     IN /\ Continue(i, outcome)
        /\ IF outcome.kind = "await"
             THEN /\ timer' = [timer EXCEPT ![i] = [state |-> "pending", delay |-> TIMEOUT_MS]]
                  /\ generation' = [generation EXCEPT ![i] =
                       [state |-> "pending", contents |-> outcome.prompt, value |-> Undefined]]
                  /\ genCalls' = [genCalls EXCEPT ![i] = @ + 1]
             ELSE UNCHANGED <<timer, generation, genCalls>>
  /\ UNCHANGED <<apiKey, race, cvars, svars, rvars, avars>>

\* The handler awaiting generationPromise alone instead of the race.
Settle_GenerationOnly(i, racer, settlement) ==
  IF race[i] = "pending" /\ racer = "generation"
    THEN /\ race' = [race EXCEPT ![i] = racer]
         /\ Continue(i, AfterRace(settlement))
    ELSE UNCHANGED <<race, pc, responses>>

\* A racer settles.  Promise.race takes the first settlement only; the
\* handler resumes with it in the same turn.
Settle(i, racer, settlement) ==
  IF race[i] = "pending"
    THEN /\ race' = [race EXCEPT ![i] = racer]
         /\ Continue(i, AfterRace(settlement))
    ELSE UNCHANGED <<race, pc, responses>>

\* generateContent fulfils with a response.
GenerationFulfils(i, resp) ==
  /\ generation[i].state = "pending"
  /\ LET settlement == GenerationPromise([state |-> "fulfilled", value |-> resp])
     IN /\ generation' = [generation EXCEPT ![i].state = settlement.state,
                                              ![i].value = settlement.value]
        /\ Settle(i, "generation", settlement)
  /\ UNCHANGED <<apiKey, event, timer, genCalls, cvars, svars, rvars, avars>>

\* A handler that makes the generation call again when it rejects.
GenerationRejects_Retry(i, thrown) ==
  /\ generation[i].state = "pending"
  /\ IF genCalls[i] < 2
       THEN /\ genCalls' = [genCalls EXCEPT ![i] = @ + 1]
            /\ UNCHANGED <<generation, race, pc, responses>>
       ELSE /\ LET settlement == GenerationPromise([state |-> "rejected", value |-> thrown])
               IN /\ generation' = [generation EXCEPT ![i].state = settlement.state,
                                                        ![i].value = settlement.value]
                  /\ Settle(i, "generation", settlement)
            /\ UNCHANGED genCalls
  /\ UNCHANGED <<apiKey, event, timer, cvars, svars, rvars, avars>>

\* generateContent rejects with a thrown value.
GenerationRejects(i, thrown) ==
  /\ generation[i].state = "pending"
  /\ LET settlement == GenerationPromise([state |-> "rejected", value |-> thrown])
     IN /\ generation' = [generation EXCEPT ![i].state = settlement.state,
                                              ![i].value = settlement.value]
        /\ Settle(i, "generation", settlement)
  /\ UNCHANGED <<apiKey, event, timer, genCalls, cvars, svars, rvars, avars>>

\* One timeoutPromise shared by the invocations: when the timer fires, the
\* race of every invocation that awaits it rejects.
TimerFires_SharedTimer(i) ==
  /\ timer[i].state = "pending"
  /\ timer' = [timer EXCEPT ![i].state = "fired"]
  /\ LET hit == {j \in Invocations : pc[j] = "awaiting" /\ race[j] = "pending"}
         outcome == AfterRace([state |-> "rejected", value |-> TimeoutError])
     IN /\ race' = [j \in Invocations |-> IF j \in hit THEN "timeout" ELSE race[j]]
        /\ pc' = [j \in Invocations |-> IF j \in hit THEN "returned" ELSE pc[j]]
        /\ responses' = [j \in Invocations |->
                           IF j \in hit THEN Append(responses[j], outcome.response)
                                        ELSE responses[j]]
  /\ UNCHANGED <<apiKey, event, generation, genCalls, cvars, svars, rvars, avars>>

\* The 8000 ms have passed: the timer's callback rejects timeoutPromise.
TimerFires(i) ==
  /\ timer[i].state = "pending"
  /\ timer' = [timer EXCEPT ![i].state = "fired"]
  /\ Settle(i, "timeout", [state |-> "rejected", value |-> TimeoutError])
  /\ UNCHANGED <<apiKey, event, generation, genCalls, cvars, svars, rvars, avars>>

HandlerNext ==
  \/ \E i \in Invocations, ev \in Events : Invoke(i, ev)
  \/ \E i \in Invocations, resp \in GenerationResponses : GenerationFulfils(i, resp)
  \/ \E i \in Invocations, thrown \in ThrownValues : GenerationRejects(i, thrown)
  \/ \E i \in Invocations : TimerFires(i)

(***************************************************************************)
(* The client's actions.                                                   *)
(***************************************************************************)
NoCall == [sourceDoc |-> Null, dirtyFeedbackDoc |-> Null, mode |-> ""]

NoResult == [state |-> "pending", value |-> Undefined]

NoResponse == [statusCode |-> 0, body |-> Undefined]

ClientInit ==
  /\ cpc = "idle"
  /\ call = NoCall
  /\ request = NoRequest
  /\ fetches = 0
  /\ result = NoResult
  /\ received = NoResponse

\* generateStructuredFeedback is called: it builds the prompt and sends the
\* request.
CallGenerateStructuredFeedback(sourceData, feedbackData, mode) ==
  /\ cpc = "idle"
  /\ cpc' = "fetching"
  /\ call' = [sourceDoc |-> sourceData, dirtyFeedbackDoc |-> feedbackData, mode |-> mode]
  /\ request' = FetchRequest(sourceData, feedbackData, mode)
  /\ fetches' = fetches + 1
  /\ UNCHANGED <<result, received, hvars, svars, rvars, avars>>

\* The platform calls the handler with the client's request.
DeliverRequest ==
  /\ cpc = "fetching"
  /\ Invoke(1, [httpMethod |-> request.method, body |-> request.body])

\* The handler's response arrives and the client's promise settles.
ReceiveResponse ==
  /\ cpc = "fetching"
  /\ pc[1] = "returned"
  /\ received' = responses[1][1]
  /\ result' = AfterFetch(responses[1][1])
  /\ cpc' = result'.state
  /\ UNCHANGED <<call, request, fetches, hvars, svars, rvars, avars>>

\* The handler's promise rejected: the platform answers in its place.
ReceivePlatformError(response) ==
  /\ cpc = "fetching"
  /\ pc[1] = "threw"
  /\ received' = response
  /\ result' = AfterFetch(response)
  /\ cpc' = result'.state
  /\ UNCHANGED <<call, request, fetches, hvars, svars, rvars, avars>>

\* The request or its response is lost: fetch rejects.
FetchFails ==
  /\ cpc = "fetching"
  /\ result' = Rethrow(FetchError)
  /\ cpc' = result'.state
  /\ UNCHANGED <<call, request, fetches, received, hvars, svars, rvars, avars>>

ClientNext ==
  \/ \E sourceData \in FileDatas, feedbackData \in FileDatas \cup {Null}, mode \in Modes :
       CallGenerateStructuredFeedback(sourceData, feedbackData, mode)
  \/ DeliverRequest
  \/ \E resp \in GenerationResponses : GenerationFulfils(1, resp)
  \/ \E thrown \in ThrownValues : GenerationRejects(1, thrown)
  \/ TimerFires(1)
  \/ ReceiveResponse
  \/ \E response \in PlatformErrorResponses : ReceivePlatformError(response)
  \/ FetchFails

(***************************************************************************)
(* The App's actions: the user's choices, handleAnalyze and its awaits.    *)
(***************************************************************************)
MaxAnalyses == 2

\* No handleAnalyze is running.
IdleAnalysis ==
  [stage |-> "idle", at |-> "", sourceDoc |-> NoFile, dirtyFeedbackDoc |-> NoFile,
   evalMode |-> "", sourceData |-> Null, reportBefore |-> Null]

AppInit ==
  /\ sourceDoc = NoFile
  /\ dirtyFeedbackDoc = NoFile
  /\ evalMode = "with-manual"
  /\ report = Null
  /\ isLoading = FALSE
  /\ loadingStep = NoStep
  /\ error = Null
  /\ view = "dashboard"
  /\ analysis = IdleAnalysis

\* The uploaders and the mode toggle are on the dashboard.  The user chooses
\* the files between analyses.
SelectSourceDoc(file) ==
  /\ view = "dashboard"
  /\ ~isLoading
  /\ sourceDoc' = file
  /\ UNCHANGED <<dirtyFeedbackDoc, evalMode, report, isLoading, loadingStep, error, view, analysis,
                 hvars, cvars, svars, rvars>>

\* The uploader of the faculty notes is rendered in 'with-manual' mode only.
SelectDirtyFeedbackDoc(file) ==
  /\ view = "dashboard"
  /\ ~isLoading
  /\ evalMode = "with-manual"
  /\ dirtyFeedbackDoc' = file
  /\ UNCHANGED <<sourceDoc, evalMode, report, isLoading, loadingStep, error, view, analysis,
                 hvars, cvars, svars, rvars>>

SetEvalMode(mode) ==
  /\ view = "dashboard"
  /\ evalMode' = mode
  /\ UNCHANGED <<sourceDoc, dirtyFeedbackDoc, report, isLoading, loadingStep, error, view, analysis,
                 hvars, cvars, svars, rvars>>

\* The button without isLoading in its disabled condition.
GenerateDisabled_NoLoading ==
  \/ sourceDoc = NoFile
  \/ (evalMode = "with-manual" /\ dirtyFeedbackDoc = NoFile)

\* disabled={isLoading || !sourceDoc || (evalMode === 'with-manual' && !dirtyFeedbackDoc)}
GenerateDisabled ==
  \/ isLoading
  \/ sourceDoc = NoFile
  \/ (evalMode = "with-manual" /\ dirtyFeedbackDoc = NoFile)

\* The promise of the analysis before and the invocation of the handler that
\* served its request are dropped.  Invocation 1 stands for the invocation
\* that serves the client's current request.
DropRequest ==
  /\ cpc' = "idle"
  /\ call' = NoCall
  /\ request' = NoRequest
  /\ result' = NoResult
  /\ received' = NoResponse
  /\ event' = [event EXCEPT ![1] = NoEvent]
  /\ pc' = [pc EXCEPT ![1] = "idle"]
  /\ timer' = [timer EXCEPT ![1] = NoTimer]
  /\ generation' = [generation EXCEPT ![1] = NoGeneration]
  /\ genCalls' = [genCalls EXCEPT ![1] = 0]
  /\ race' = [race EXCEPT ![1] = "pending"]
  /\ responses' = [responses EXCEPT ![1] = <<>>]
  /\ UNCHANGED <<apiKey, fetches>>

\* The user clicks Generate: handleAnalyze runs to its first await, inside
\* processFile(sourceDoc).
HandleAnalyze ==
  /\ view = "dashboard"
  /\ ~GenerateDisabled
  /\ fetches < MaxAnalyses
  /\ LET invalid == ValidationError(sourceDoc, dirtyFeedbackDoc, evalMode)
     IN IF invalid # Null
          THEN /\ error' = invalid
               /\ UNCHANGED <<isLoading, loadingStep, analysis, hvars, cvars>>
          ELSE /\ isLoading' = TRUE
               /\ error' = Null
               /\ loadingStep' = StageStep(FirstStage(sourceDoc), sourceDoc)
               /\ analysis' = [stage |-> "source", at |-> FirstStage(sourceDoc),
                               sourceDoc |-> sourceDoc, dirtyFeedbackDoc |-> dirtyFeedbackDoc,
                               evalMode |-> evalMode, sourceData |-> Null, reportBefore |-> report]
               /\ DropRequest
  /\ UNCHANGED <<sourceDoc, dirtyFeedbackDoc, evalMode, report, view, svars, rvars>>

\* catch (err) { setError(...) } finally { setIsLoading(false); setLoadingStep('') }
AnalysisFails(err) ==
  /\ error' = CatchError(err)
  /\ isLoading' = FALSE
  /\ loadingStep' = NoStep
  /\ analysis' = IdleAnalysis
  /\ UNCHANGED <<report, view>>

\* generateStructuredFeedback called by handleAnalyze: it builds the prompt
\* and sends the request.
StartFetch(sourceData, feedbackData, mode) ==
  /\ cpc' = "fetching"
  /\ call' = [sourceDoc |-> sourceData, dirtyFeedbackDoc |-> feedbackData, mode |-> mode]
  /\ request' = FetchRequest(sourceData, feedbackData, mode)
  /\ fetches' = fetches + 1
  /\ UNCHANGED <<result, received, hvars>>

\* What handleAnalyze does when an await of processFile settles: it goes on to
\* the next await of processFile (of the same file or of the faculty notes),
\* it calls generateStructuredFeedback, or it ends in the catch block.
Resumed(kind, a, step, thrown, feedbackData) ==
  [kind |-> kind, analysis |-> a, loadingStep |-> step, thrown |-> thrown, feedbackData |-> feedbackData]

\* handleAnalyze calling generateStructuredFeedback as soon as the answer
\* sheet is processed, without the faculty notes.
AfterProcessFile_CallsEarly(a, settled) ==
  LET faculty == FacultyToProcess(a.evalMode, a.dirtyFeedbackDoc)
      file == IF a.stage = "source" THEN a.sourceDoc ELSE faculty
      r == ProcessFileStage(file, a.at, settled)
  IN CASE r.kind = "await" ->
            Resumed("await", [a EXCEPT !.at = r.stage], StageStep(r.stage, file), Undefined, Null)
       [] r.kind = "reject" ->
            Resumed("catch", a, NoStep, r.value, Null)
       [] OTHER ->
            Resumed("call",
                    [a EXCEPT !.stage = "calling", !.at = "",
                              !.sourceData = IF a.stage = "source" THEN r.value ELSE a.sourceData],
                    AuditStep, Undefined,
                    IF a.stage = "faculty" THEN r.value ELSE Null)

AfterProcessFile(a, settled) ==
  LET faculty == FacultyToProcess(a.evalMode, a.dirtyFeedbackDoc)
      file == IF a.stage = "source" THEN a.sourceDoc ELSE faculty
      r == ProcessFileStage(file, a.at, settled)
  IN CASE r.kind = "await" ->
            Resumed("await", [a EXCEPT !.at = r.stage], StageStep(r.stage, file), Undefined, Null)
       [] r.kind = "reject" ->
            Resumed("catch", a, NoStep, r.value, Null)
       [] r.kind = "return" /\ a.stage = "source" /\ faculty # NoFile ->
            Resumed("await",
                    [a EXCEPT !.stage = "faculty", !.at = FirstStage(faculty), !.sourceData = r.value],
                    StageStep(FirstStage(faculty), faculty), Undefined, Null)
       [] OTHER ->
            Resumed("call",
                    [a EXCEPT !.stage = "calling", !.at = "",
                              !.sourceData = IF a.stage = "source" THEN r.value ELSE a.sourceData],
                    AuditStep, Undefined,
                    IF a.stage = "faculty" THEN r.value ELSE Null)

\* processFile with a FileReader that has no onerror handler: when the reader
\* reports an error its promise stays pending, and handleAnalyze with it.
ProcessFileSettles_NoOnError(settled) ==
  /\ analysis.stage \in {"source", "faculty"}
  /\ analysis.at \in {"docx", "pdf", "reader"}
  /\ settled \in StageOutcomes(analysis.at)
  /\ IF settled.kind = "error"
       THEN /\ analysis' = [analysis EXCEPT !.at = "pending for ever"]
            /\ UNCHANGED <<loadingStep, isLoading, error, report, view, hvars, cvars>>
       ELSE LET r == AfterProcessFile(analysis, settled)
            IN CASE r.kind = "await" ->
                      /\ analysis' = r.analysis
                      /\ loadingStep' = r.loadingStep
                      /\ UNCHANGED <<isLoading, error, report, view, hvars, cvars>>
                 [] r.kind = "catch" ->
                      /\ AnalysisFails(r.thrown)
                      /\ UNCHANGED <<hvars, cvars>>
                 [] OTHER ->
                      /\ analysis' = r.analysis
                      /\ loadingStep' = r.loadingStep
                      /\ StartFetch(r.analysis.sourceData, r.feedbackData, r.analysis.evalMode)
                      /\ UNCHANGED <<isLoading, error, report, view>>
  /\ UNCHANGED <<sourceDoc, dirtyFeedbackDoc, evalMode, svars, rvars>>

\* An await of processFile settles and handleAnalyze runs to its next await.
ProcessFileSettles(settled) ==
  /\ analysis.stage \in {"source", "faculty"}
  /\ settled \in StageOutcomes(analysis.at)
  /\ LET r == AfterProcessFile(analysis, settled)
     IN CASE r.kind = "await" ->
               /\ analysis' = r.analysis
               /\ loadingStep' = r.loadingStep
               /\ UNCHANGED <<isLoading, error, report, view, hvars, cvars>>
          [] r.kind = "catch" ->
               /\ AnalysisFails(r.thrown)
               /\ UNCHANGED <<hvars, cvars>>
          [] OTHER ->
               /\ analysis' = r.analysis
               /\ loadingStep' = r.loadingStep
               /\ StartFetch(r.analysis.sourceData, r.feedbackData, r.analysis.evalMode)
               /\ UNCHANGED <<isLoading, error, report, view>>
  /\ UNCHANGED <<sourceDoc, dirtyFeedbackDoc, evalMode, svars, rvars>>

\* The promise of generateStructuredFeedback settles: setReport(result), or
\* the catch block; then the finally block.  The effect that follows the
\* render, if (report) setView('report'), runs before the next event.
AnalyzeSettles ==
  /\ analysis.stage = "calling"
  /\ cpc \in {"resolved", "rejected"}
  /\ IF cpc = "resolved"
       THEN /\ report' = result.value
            /\ view' = IF Truthy(result.value) THEN "report" ELSE view
            /\ isLoading' = FALSE
            /\ loadingStep' = NoStep
            /\ analysis' = IdleAnalysis
            /\ UNCHANGED error
       ELSE AnalysisFails(result.value)
  /\ UNCHANGED <<sourceDoc, dirtyFeedbackDoc, evalMode, hvars, cvars, svars, rvars>>

\* The New Analysis button of the report view.
NewAnalysis ==
  /\ view = "report"
  /\ report' = Null
  /\ view' = "dashboard"
  /\ error' = Null
  /\ UNCHANGED <<sourceDoc, dirtyFeedbackDoc, evalMode, isLoading, loadingStep, analysis,
                 hvars, cvars, svars, rvars>>

\* The steps of the handler are followed while the client awaits its
\* response; what an abandoned invocation does afterwards is in Spec.
AppNext ==
  \/ \E file \in Files : SelectSourceDoc(file)
  \/ \E file \in Files : SelectDirtyFeedbackDoc(file)
  \/ \E mode \in Modes : SetEvalMode(mode)
  \/ HandleAnalyze
  \/ \E settled \in UNION {StageOutcomes(stage) : stage \in {"docx", "pdf", "reader"}} :
       ProcessFileSettles(settled)
  \/ DeliverRequest
  \/ \E resp \in AppGenerationResponses : cpc = "fetching" /\ GenerationFulfils(1, resp)
  \/ \E thrown \in ThrownValues : cpc = "fetching" /\ GenerationRejects(1, thrown)
  \/ cpc = "fetching" /\ TimerFires(1)
  \/ ReceiveResponse
  \/ \E response \in PlatformErrorResponses : ReceivePlatformError(response)
  \/ FetchFails
  \/ AnalyzeSettles
  \/ NewAnalysis

(***************************************************************************)
(* The sanitization's actions.                                             *)
(***************************************************************************)
SanitizeIdle ==
  /\ modelOutput = Undefined
  /\ jsonText = <<>>
  /\ cleanOutput = <<>>
  /\ reportData = NoReport
  /\ spc = "idle"
  /\ strippedAgain = <<>>

\* The model answers with a JSON text in a fence.
SanitizeInit ==
  /\ \E json \in ValidJsonTexts, tagged \in BOOLEAN, leading \in Paddings, trailing \in Paddings :
       /\ jsonText = json
       /\ modelOutput = Text(FencedOutput(json, tagged, leading, trailing))
  /\ cleanOutput = <<>>
  /\ reportData = NoReport
  /\ spc = "output"
  /\ strippedAgain = <<>>

\* The client trims, strips and parses the output.
ParseModelOutput ==
  /\ spc = "output"
  /\ cleanOutput' = CleanOutput(modelOutput.chars)
  /\ reportData' = ParseReport(modelOutput)
  /\ spc' = "parsed"
  /\ UNCHANGED <<modelOutput, jsonText, strippedAgain, hvars, cvars, avars, rvars>>

SanitizeNext == ParseModelOutput

\* The endpoint has answered with a success envelope.
EnvelopeInit ==
  /\ modelOutput \in EnvelopeOutputs
  /\ jsonText = <<>>
  /\ cleanOutput = <<>>
  /\ reportData = NoReport
  /\ spc = "answered"
  /\ strippedAgain = <<>>

\* The client receives the success envelope: it trims, strips and parses
\* data.output, and its promise settles.
ReceiveSuccessEnvelope ==
  /\ spc = "answered"
  /\ received' = Response(200, SuccessEnvelope(modelOutput))
  /\ result' = AfterFetch(received')
  /\ cpc' = result'.state
  /\ cleanOutput' = IF modelOutput = Undefined THEN <<>> ELSE CleanOutput(modelOutput.chars)
  /\ reportData' = ParseReport(modelOutput)
  /\ spc' = "settled"
  /\ UNCHANGED <<modelOutput, jsonText, strippedAgain, call, request, fetches, hvars, avars, rvars>>

\* The strip step applied to the stripped output.
StripAgain ==
  /\ spc = "settled"
  /\ modelOutput # Undefined
  /\ strippedAgain' = CleanOutput(cleanOutput)
  /\ spc' = "stripped again"
  /\ UNCHANGED <<modelOutput, jsonText, cleanOutput, reportData, hvars, cvars, avars, rvars>>

EnvelopeNext == ReceiveSuccessEnvelope \/ StripAgain

(***************************************************************************)
(* The report view: FeedbackReport renders the report in a table and       *)
(* handleExportWord writes it to a Word document.                          *)
(***************************************************************************)
MaxQuestions == 2

DecimalDigits == <<"0", "1", "2", "3", "4", "5", "6", "7", "8", "9">>

IsDecimalDigit(c) == \E d \in 0..9 : DecimalDigits[d + 1] = c

DigitValue(c) == CHOOSE d \in 0..9 : DecimalDigits[d + 1] = c

\* The value of a sequence of decimal digits.
RECURSIVE DigitsValue(_)
DigitsValue(ds) ==
  IF ds = <<>> THEN 0
  ELSE 10 * DigitsValue(SubSeq(ds, 1, Len(ds) - 1)) + DigitValue(ds[Len(ds)])

JSNumber(digits) == [type |-> "number", digits |-> digits]

NaN == [nan |-> TRUE, n |-> 0]

Finite(n) == [nan |-> FALSE, n |-> n]

\* Number(v): null is 0, undefined is NaN, true is 1 and false 0, the empty
\* string is 0, a string of digits is its value, another string is NaN.
Number(v) ==
  CASE v.type = "number" -> Finite(DigitsValue(v.digits))
    [] v.type = "null" -> Finite(0)
    [] v.type = "boolean" -> Finite(IF v.b THEN 1 ELSE 0)
    [] v.type = "string" /\ "chars" \in DOMAIN v ->
         IF \A i \in 1..Len(v.chars) : IsDecimalDigit(v.chars[i])
           THEN Finite(DigitsValue(v.chars))
           ELSE NaN
    [] OTHER -> NaN

\* Number(q.marks) || 0
MarksOrZero(q) ==
  LET marks == Number(Get(q, "marks"))
  IN IF marks.nan \/ marks.n = 0 THEN 0 ELSE marks.n

\* questions.reduce((acc, q) => acc + (Number(q.marks) || 0), 0)
RECURSIVE Reduce(_)
Reduce(questions) ==
  IF questions = <<>> THEN 0
  ELSE Reduce(SubSeq(questions, 1, Len(questions) - 1)) + MarksOrZero(questions[Len(questions)])

\* report.questions?.reduce(...) || 0
calculatedSum(r) ==
  LET questions == Get(r, "questions")
  IN IF questions.type \in {"undefined", "null"} THEN 0 ELSE Reduce(questions.items)

\* What the model wrote as the marks of a question; Undefined stands for a
\* question without marks.
MarksValues ==
  { Undefined, Null, Bool(TRUE),
    JSNumber(<<"0">>), JSNumber(<<"2">>), JSNumber(<<"1", "0">>),
    Text(<<>>), Text(<<"3">>), Text(<<"A">>) }

Question(marks) ==
  IF marks = Undefined
    THEN Obj([qNo |-> Text(<<"1">>), feedbackPoints |-> Arr(<<>>)])
    ELSE Obj([qNo |-> Text(<<"1">>), feedbackPoints |-> Arr(<<>>), marks |-> marks])

\* The questions of a report: none, null, or a list.
QuestionLists ==
  {Undefined, Null}
    \cup {Arr(qs) : qs \in UNION {[1..n -> {Question(m) : m \in MarksValues}] : n \in 0..MaxQuestions}}

GeneralFeedbackKeys ==
  { "overallPerformance", "mcqs", "contentAccuracy", "completenessOfAnswers",
    "presentationDiagrams", "investigations", "attemptingQuestions", "actionPoints" }

\* The reports the model returns, as far as the table is concerned: the
\* general feedback is there, the scores are numbers.
Reports ==
  { Obj(IF questions = Undefined
          THEN [totalScore |-> totalScore, maxScore |-> JSNumber(<<"1", "0">>),
                generalFeedback |-> Obj([k \in GeneralFeedbackKeys |-> Arr(<<>>)])]
          ELSE [totalScore |-> totalScore, maxScore |-> JSNumber(<<"1", "0">>),
                questions |-> questions,
                generalFeedback |-> Obj([k \in GeneralFeedbackKeys |-> Arr(<<>>)])])
    : questions \in QuestionLists, totalScore \in {JSNumber(<<"0">>), JSNumber(<<"5">>)} }

NotRendered == [kind |-> "none", total |-> 0, maxScore |-> Undefined]

NotExported == [kind |-> "none", total |-> 0, maxScore |-> Undefined, error |-> Undefined]

ReportIdle ==
  /\ reportTable = NotRendered
  /\ wordExport = NotExported

\* The analysis has returned this report and the App shows the report view.
ReportInit ==
  /\ HandlerInit
  /\ ClientInit
  /\ SanitizeIdle
  /\ sourceDoc \in Files
  /\ dirtyFeedbackDoc = NoFile
  /\ evalMode = "without-manual"
  /\ report \in Reports
  /\ isLoading = FALSE
  /\ loadingStep = NoStep
  /\ error = Null
  /\ view = "report"
  /\ analysis = IdleAnalysis
  /\ ReportIdle

\* FeedbackReport renders: the last row of the table shows calculatedSum and
\* report.maxScore.
RenderFeedbackReport ==
  /\ view = "report"
  /\ Truthy(report)
  /\ reportTable.kind = "none"
  /\ reportTable' = [kind |-> "rendered", total |-> calculatedSum(report),
                     maxScore |-> Get(report, "maxScore")]
  /\ UNCHANGED <<wordExport, hvars, cvars, svars, avars>>

\* The user clicks the Word button: report.questions.forEach throws when the
\* report has no questions; otherwise the document with the total row is
\* downloaded.
handleExportWord ==
  /\ view = "report"
  /\ Truthy(report)
  /\ wordExport.kind = "none"
  /\ wordExport' =
       IF Get(report, "questions").type \in {"undefined", "null"}
         THEN [kind |-> "threw", total |-> 0, maxScore |-> Undefined,
               error |-> ErrorObj("TypeError", "Cannot read properties of "
                                    \o Get(report, "questions").type \o " (reading 'forEach')")]
         ELSE [kind |-> "downloaded", total |-> calculatedSum(report),
               maxScore |-> Get(report, "maxScore"), error |-> Undefined]
  /\ UNCHANGED <<reportTable, hvars, cvars, svars, avars>>

ReportNext == RenderFeedbackReport \/ handleExportWord

(***************************************************************************)
(* Specifications: the handler called with any event; the client with the  *)
(* handler behind it; the App with the client and the handler behind it;   *)
(* the sanitization of the model's output.                                 *)
(***************************************************************************)
vars == <<hvars, cvars, svars, avars, rvars>>

Init == HandlerInit /\ ClientInit /\ SanitizeIdle /\ AppInit /\ ReportIdle

Next == HandlerNext

Spec == Init /\ [][Next]_vars

SpecClient == Init /\ [][ClientNext]_vars

SpecApp == Init /\ [][AppNext]_vars

\* The App with its promises settling: every await of processFile settles
\* (the file is read or the read fails, the extraction returns or throws),
\* the HTTP request settles (a response arrives or fetch rejects, so that the
\* client is again and again not waiting for one), and handleAnalyze resumes
\* when the promise it awaits has settled.
RequestSettled == cpc # "fetching"

AwaitSettles ==
  \E settled \in UNION {StageOutcomes(stage) : stage \in {"docx", "pdf", "reader"}} :
    ProcessFileSettles(settled)

SpecAppLive ==
  /\ Init /\ [][AppNext]_vars
  /\ WF_vars(AwaitSettles)
  /\ []<>RequestSettled
  /\ WF_vars(AnalyzeSettles)

InitSanitize ==
  /\ HandlerInit
  /\ apiKey = Undefined
  /\ ClientInit
  /\ SanitizeInit
  /\ AppInit
  /\ ReportIdle

SpecSanitize == InitSanitize /\ [][SanitizeNext]_vars

InitEnvelope ==
  /\ HandlerInit
  /\ apiKey = Undefined
  /\ ClientInit
  /\ EnvelopeInit
  /\ AppInit
  /\ ReportIdle

SpecEnvelope == InitEnvelope /\ [][EnvelopeNext]_vars

SpecReport == ReportInit /\ [][ReportNext]_vars

(***************************************************************************)
(* Properties of the evaluate handler.                                     *)
(***************************************************************************)
Finished(i) == pc[i] \in {"returned", "threw"}

\* The fields of the JSON object in a response's body.
BodyFields(r) == r.body.json.fields

NonEmptyString(v) == v.type = "string" /\ Truthy(v)

TimeoutResponse ==
  [statusCode |-> 200,
   body |-> JSONText(Obj([success |-> Bool(FALSE), error |-> Str("AI evaluation timed out after 8 seconds")]))]

MissingPromptResponse ==
  [statusCode |-> 200,
   body |-> JSONText(Obj([success |-> Bool(FALSE), error |-> Str("Missing 'prompt' in request body.")]))]

\* The request passed validation: POST, API key configured, body parses,
\* prompt present.
PassesValidation(ev) ==
  /\ ev.httpMethod = "POST"
  /\ Truthy(apiKey)
  /\ IsJSONText(ev.body)
  /\ ev.body.json.type = "object"
  /\ "prompt" \in DOMAIN ev.body.json.fields
  /\ Truthy(ev.body.json.fields.prompt)

\* C1: for a POST request that passes validation, when the 8000 ms timer fires
\* while the generation call has not settled, the handler returns status 200
\* with {success: false, error: "AI evaluation timed out after 8 seconds"}.
C1_TimeoutEnvelope ==
  [][\A i \in Invocations :
       ( /\ PassesValidation(event[i])
         /\ generation[i].state = "pending"
         /\ timer[i].state = "pending" /\ timer'[i].state = "fired" )
       => /\ timer[i].delay = 8000
          /\ pc'[i] = "returned"
          /\ responses'[i] = <<TimeoutResponse>>]_vars

C1_Witness ==
  \E i \in Invocations :
    /\ PassesValidation(event[i])
    /\ timer[i].state = "fired" /\ generation[i].state = "pending"
    /\ responses[i] = <<TimeoutResponse>>

\* C2: every invocation that starts the generation call has returned its
\* response by the time the 8000 ms timer has fired, however long the
\* generation call takes.
C2_BoundedResponse ==
  \A i \in Invocations :
    (genCalls[i] > 0 /\ timer[i].state = "fired")
      => (pc[i] = "returned" /\ Len(responses[i]) = 1)

\* C3 as stated: the first racer to settle decides the response.  If the
\* generation call fulfils first the response is {success: true, output: <the
\* text>}; if it rejects first the response is {success: false, error: <the
\* rejection's message>}; the timeout message appears in neither case.
C3_Original ==
  \A i \in Invocations :
    race[i] = "generation" =>
      /\ generation[i].state = "fulfilled" =>
            responses[i] = <<[statusCode |-> 200,
                              body |-> JSONText(Obj([success |-> Bool(TRUE),
                                                     output |-> generation[i].value]))]>>
      /\ generation[i].state = "rejected" =>
            responses[i] = <<[statusCode |-> 200,
                              body |-> JSONText(Obj([success |-> Bool(FALSE),
                                                     error |-> Get(generation[i].value, "message")]))]>>
      /\ \A k \in DOMAIN responses[i] : responses[i][k] # TimeoutResponse

\* C3 as amended: the first racer to settle decides the outcome.  If the
\* generation call fulfils first with text t the response is {success: true,
\* output: t}, the output field being absent when t is undefined.  If it
\* rejects first with a value v, the response is {success: false, error: m},
\* where m is v's message when that is a non-empty string and "Internal Server
\* Error" when v carries an empty message or none; when v is null or undefined
\* the handler returns no response at all.  The timeout message appears in
\* none of these cases.
C3_FirstSettlerDecides ==
  \A i \in Invocations :
    race[i] = "generation" =>
      LET g == generation[i]
      IN /\ g.state = "fulfilled" =>
              /\ pc[i] = "returned"
              /\ responses[i] = <<[statusCode |-> 200,
                                   body |-> JSONText(Obj(IF g.value = Undefined
                                                           THEN [success |-> Bool(TRUE)]
                                                           ELSE [success |-> Bool(TRUE), output |-> g.value]))]>>
         /\ (g.state = "rejected" /\ g.value.type \in {"undefined", "null"}) =>
              /\ pc[i] = "threw"
              /\ responses[i] = <<>>
         /\ (g.state = "rejected" /\ g.value.type \notin {"undefined", "null"}) =>
              /\ pc[i] = "returned"
              /\ responses[i] = <<[statusCode |-> 200,
                                   body |-> JSONText(Obj([success |-> Bool(FALSE),
                                                          error |-> IF g.value.type = "Error" /\ g.value.message # ""
                                                                      THEN Str(g.value.message)
                                                                      ELSE Str("Internal Server Error")]))]>>
         /\ \A k \in DOMAIN responses[i] : responses[i][k] # TimeoutResponse

\* The generation call rejected first, with an error that has an empty
\* message, and the timer fired afterwards.
C3_Witness ==
  \E i \in Invocations :
    /\ race[i] = "generation"
    /\ generation[i].state = "rejected"
    /\ generation[i].value = ErrorObj("Error", "")
    /\ timer[i].state = "fired"
    /\ Len(responses[i]) = 1

\* C4: the loser of the race is abandoned and cannot affect the result.  Every
\* finished invocation has produced exactly one response; a response, once
\* returned, is never followed by a second one nor changed; when the timer wins
\* the generation call stays in flight, and when the generation call wins the
\* timer stays pending.
C4_LoserAbandoned ==
  /\ [](\A i \in Invocations : Finished(i) => Len(responses[i]) = 1)
  /\ [][\A i \in Invocations :
          /\ responses[i] # <<>> => responses'[i] = responses[i]
          /\ (timer[i].state = "pending" /\ timer'[i].state = "fired")
               => generation'[i] = generation[i]
          /\ (generation[i].state = "pending" /\ generation'[i].state # "pending")
               => timer'[i] = timer[i]]_vars

\* The request has a configured API key and a body that is absent, the empty
\* object, or an object whose prompt field is missing or falsy.
MissingPrompt(ev) ==
  /\ ev.httpMethod = "POST"
  /\ Truthy(apiKey)
  /\ \/ ev.body = Undefined
     \/ /\ IsJSONText(ev.body)
        /\ ev.body.json.type = "object"
        /\ \/ "prompt" \notin DOMAIN ev.body.json.fields
           \/ ~Truthy(ev.body.json.fields.prompt)

\* C5: a POST request with a configured API key whose body is absent, the
\* empty object, or an object whose prompt is missing or falsy gets status 200
\* with {success: false, error: "Missing 'prompt' in request body."}, and no
\* generation call is made.
C5_MissingPrompt ==
  \A i \in Invocations :
    (pc[i] # "idle" /\ MissingPrompt(event[i])) =>
      /\ pc[i] = "returned"
      /\ responses[i] = <<MissingPromptResponse>>
      /\ genCalls[i] = 0
      /\ generation[i].state = "none"
      /\ timer[i].state = "none"

C5_Witness ==
  \E i \in Invocations :
    /\ event[i] = [httpMethod |-> "POST", body |-> JSONText(Obj([prompt |-> Str("")]))]
    /\ Truthy(apiKey)
    /\ responses[i] = <<MissingPromptResponse>>

\* C6: for every event the handler resolves with a response and never
\* rejects, and the response body is a JSON object with a boolean success
\* field.
C6_AllErrorsCaught ==
  \A i \in Invocations :
    /\ pc[i] # "threw"
    /\ Finished(i) => Len(responses[i]) = 1
    /\ \A k \in DOMAIN responses[i] :
         /\ IsJSONText(responses[i][k].body)
         /\ responses[i][k].body.json.type = "object"
         /\ "success" \in DOMAIN BodyFields(responses[i][k])
         /\ BodyFields(responses[i][k]).success.type = "boolean"

\* The failure classes of a POST request: missing API key, unparseable body,
\* missing prompt, timeout, failure of the generation API.
FailureClass(i) ==
  /\ event[i].httpMethod = "POST"
  /\ Finished(i)
  /\ \/ ~Truthy(apiKey)
     \/ (Truthy(event[i].body) /\ ~IsJSONText(event[i].body))
     \/ MissingPrompt(event[i])
     \/ race[i] = "timeout"
     \/ (race[i] = "generation" /\ generation[i].state = "rejected")

\* C7: every failure class of a POST request is returned with status 200 and
\* the body {success: false, error: <non-empty string>}.
C7_UniformErrorEnvelope ==
  \A i \in Invocations :
    FailureClass(i) =>
      /\ Len(responses[i]) = 1
      /\ responses[i][1].statusCode = 200
      /\ DOMAIN BodyFields(responses[i][1]) = {"success", "error"}
      /\ BodyFields(responses[i][1]).success = Bool(FALSE)
      /\ NonEmptyString(BodyFields(responses[i][1]).error)

\* C8: every response body has exactly one of two forms: success true with an
\* output field and no error field, or success false with a non-empty error
\* string and no output field.
C8_EnvelopeShape ==
  \A i \in Invocations : \A k \in DOMAIN responses[i] :
    LET f == BodyFields(responses[i][k])
    IN \/ /\ f.success = Bool(TRUE)
          /\ "output" \in DOMAIN f
          /\ "error" \notin DOMAIN f
          /\ f.output = generation[i].value
       \/ /\ f.success = Bool(FALSE)
          /\ "error" \in DOMAIN f
          /\ NonEmptyString(f.error)
          /\ "output" \notin DOMAIN f

(***************************************************************************)
(* Properties of the client's request and of the sanitization.             *)
(***************************************************************************)
RequestFields == request.body.json.fields

C10_FencedJsonParses ==
  spc = "parsed" =>
    /\ JSONParseText(jsonText).ok
    /\ reportData = [ok |-> TRUE, value |-> JSONParseText(jsonText).value]

\* An array in a fence without the tag, with whitespace before and after the
\* fence, has been parsed.
C10_Witness ==
  /\ spc = "parsed"
  /\ jsonText = <<"[", "1", "]">>
  /\ modelOutput = Text(<<NL, " ">> \o Fence \o <<NL, "[", "1", "]", NL>> \o Fence \o <<NL>>)
  /\ cleanOutput = <<"[", "1", "]">>
  /\ reportData.value = Arr(<<[type |-> "number", digits |-> <<"1">>]>>)

(***************************************************************************)
(* Properties of the handler: the model's output, retries, concurrent      *)
(* invocations, the method check.                                          *)
(***************************************************************************)
\* The text of the model is a JSON text.
WellFormedOutput(v) ==
  /\ v.type = "string"
  /\ "chars" \in DOMAIN v
  /\ JSONParseText(v.chars).ok

\* C11: whenever the generation call fulfils first with output that is not a
\* well-formed JSON text (text that is not JSON, the empty text, or no text),
\* the handler returns the error envelope {success: false, error: ...} and not
\* a success envelope.
C11_MalformedOutputCaught ==
  \A i \in Invocations :
    ( /\ race[i] = "generation"
      /\ generation[i].state = "fulfilled"
      /\ ~WellFormedOutput(generation[i].value) )
    => /\ Len(responses[i]) = 1
       /\ BodyFields(responses[i][1]).success = Bool(FALSE)
       /\ "error" \in DOMAIN BodyFields(responses[i][1])

\* What one invocation holds: its event, its position, its timer, its
\* generation call, its race and its responses.
InvocationState(i) ==
  <<event[i], pc[i], timer[i], generation[i], genCalls[i], race[i], responses[i]>>

\* What settled the race of an invocation: nothing yet, its timer, or its
\* generation call with the value it settled with.
RaceSettlement(i) ==
  IF race[i] = "generation"
    THEN [racer |-> race[i], state |-> generation[i].state, value |-> generation[i].value]
    ELSE [racer |-> race[i], state |-> "none", value |-> Undefined]

\* C13: two concurrent invocations share no mutable state.  Each invocation
\* that passes validation has its own timer and its own generation call; a
\* step of one invocation (its timer firing, its generation call settling)
\* changes nothing of the other; a timeout response is returned only by the
\* invocation whose own timer settled its race; and two invocations with the
\* same request and the same first settlement of their own race have the same
\* response.
C13_NoSharedState ==
  /\ [](\A i \in Invocations :
          /\ pc[i] = "awaiting" => (timer[i].state = "pending" /\ generation[i].state = "pending")
          /\ genCalls[i] > 0 => (timer[i].state # "none" /\ generation[i].state # "none")
          /\ (\E k \in DOMAIN responses[i] : responses[i][k] = TimeoutResponse)
               => (timer[i].state = "fired" /\ race[i] = "timeout"))
  /\ [](\A i, j \in Invocations :
          (event[i] = event[j] /\ RaceSettlement(i) = RaceSettlement(j))
            => (pc[i] = pc[j] /\ responses[i] = responses[j]))
  /\ [][\A i, j \in Invocations :
          (i # j /\ InvocationState(i)' # InvocationState(i))
            => InvocationState(j)' = InvocationState(j)]_vars

\* The timer of the first invocation has fired and given it the timeout
\* response while the second invocation, called with the same request, was
\* awaiting its own race; the second invocation's generation call fulfilled
\* afterwards, its timer still pending.
C13_Witness ==
  /\ event[1] = event[2]
  /\ timer[1].state = "fired"
  /\ responses[1] = <<TimeoutResponse>>
  /\ generation[1].state = "pending"
  /\ timer[2].state = "pending"
  /\ race[2] = "generation"
  /\ generation[2].state = "fulfilled"
  /\ Len(responses[2]) = 1
  /\ BodyFields(responses[2][1]).success = Bool(TRUE)

MethodNotAllowedResponse ==
  [statusCode |-> 405,
   body |-> JSONText(Obj([success |-> Bool(FALSE), error |-> Str("Method Not Allowed")]))]

\* C17: every request whose method is not POST, whatever the API key and the
\* body, gets status 405 with {success: false, error: "Method Not Allowed"};
\* the body is not parsed, no timer is started and no generation call is made.
C17_OnlyPost ==
  \A i \in Invocations :
    (pc[i] # "idle" /\ event[i].httpMethod # "POST") =>
      /\ pc[i] = "returned"
      /\ responses[i] = <<MethodNotAllowedResponse>>
      /\ timer[i].state = "none"
      /\ generation[i].state = "none"
      /\ genCalls[i] = 0
      /\ race[i] = "pending"

\* An OPTIONS request with a body that is not JSON, no API key configured.
C17_Witness ==
  \E i \in Invocations :
    /\ event[i] = [httpMethod |-> "OPTIONS", body |-> Str("{not json")]
    /\ ~Truthy(apiKey)
    /\ responses[i] = <<MethodNotAllowedResponse>>

(***************************************************************************)
(* Properties of the App: an analysis from the click to its end.           *)
(***************************************************************************)
\* handleAnalyze starts an analysis in this step.
AnalysisStarts == ~isLoading /\ isLoading'

\* C12: no retry.  One invocation of the handler makes at most one generation
\* call, at its entry; one call of generateStructuredFeedback sends one
\* request, which is delivered once; and after a timeout, a failure of the
\* API, an error envelope or a parse failure, no generation call is made and
\* no request is sent until the user starts a new analysis.
C12_NoRetry ==
  /\ [](genCalls[1] <= 1)
  /\ [][ /\ genCalls'[1] > genCalls[1]
              => (genCalls[1] = 0 /\ pc[1] = "idle" /\ pc'[1] = "awaiting" /\ cpc = "fetching")
         /\ fetches' # fetches
              => /\ fetches' = fetches + 1
                 /\ analysis.stage \in {"source", "faculty"} /\ analysis'.stage = "calling"
                 /\ cpc = "idle" /\ cpc' = "fetching"
         /\ analysis.stage = "calling"
              => (fetches' = fetches /\ request' = request /\ analysis'.stage \in {"calling", "idle"})
         /\ (pc[1] # "idle" /\ ~AnalysisStarts) => event'[1] = event[1]
         /\ ((cpc = "rejected" \/ Finished(1)) /\ ~AnalysisStarts)
              => (fetches' = fetches /\ genCalls' = genCalls) ]_vars

\* The first analysis ended with the timeout message on screen: one request,
\* one generation call.
C12_Witness ==
  /\ analysis.stage = "idle"
  /\ ~isLoading
  /\ error = Str("AI evaluation timed out after 8 seconds")
  /\ race[1] = "timeout"
  /\ fetches = 1
  /\ genCalls[1] = 1

\* A step of handleAnalyze without the faculty notes its closure holds.
WithoutFaculty(r) == [r EXCEPT !.analysis.dirtyFeedbackDoc = NoFile]

\* C14: in 'without-manual' mode the faculty notes are ignored.  Whatever
\* faculty-notes file the UI state holds (none or any file), handleAnalyze
\* makes the same checks, never reads that file, takes the same step at every
\* await whatever file is put in its place, and sends the request built from
\* the answer sheet alone, which is also the request the client builds for
\* any faculty document handed to it.
C14_FacultyNotesIgnored ==
  /\ evalMode = "without-manual" =>
       \A f \in Files \cup {NoFile} :
         ValidationError(sourceDoc, f, evalMode) = ValidationError(sourceDoc, dirtyFeedbackDoc, evalMode)
  /\ (analysis.stage # "idle" /\ analysis.evalMode = "without-manual") =>
       /\ analysis.stage # "faculty"
       /\ analysis.stage = "source" =>
            \A f \in Files \cup {NoFile} : \A settled \in StageOutcomes(analysis.at) :
              WithoutFaculty(AfterProcessFile([analysis EXCEPT !.dirtyFeedbackDoc = f], settled))
                = WithoutFaculty(AfterProcessFile(analysis, settled))
       /\ analysis.stage = "calling" =>
            /\ call = [sourceDoc |-> analysis.sourceData, dirtyFeedbackDoc |-> Null, mode |-> "without-manual"]
            /\ \A d \in FileDatas \cup {Null} :
                 request = FetchRequest(analysis.sourceData, d, "without-manual")

\* An analysis in 'without-manual' mode, started while the UI state held a
\* faculty-notes file, has sent its request and the handler has answered.
C14_Witness ==
  /\ analysis.stage = "calling"
  /\ analysis.evalMode = "without-manual"
  /\ analysis.dirtyFeedbackDoc \in Files
  /\ pc[1] = "returned"

\* A document holds a name and either a text or base64 data with a MIME type.
DocumentHolds(d) ==
  /\ d.type = "object"
  /\ \A f \in DOMAIN d.fields \ {"isDocx"} : d.fields[f].type = "string"
  /\ "name" \in DOMAIN d.fields
  /\ \/ /\ "text" \in DOMAIN d.fields
        /\ {"base64", "mimeType"} \cap DOMAIN d.fields = {}
     \/ /\ "text" \notin DOMAIN d.fields
        /\ {"base64", "mimeType"} \subseteq DOMAIN d.fields

\* C15: every value processFile returns holds the file's name and exactly one
\* of a text field (the extracted text, which may be empty) and a pair of
\* base64 data and MIME type (which may be empty); never both, never neither.
C15_DocumentRepresentation ==
  /\ \A d \in {analysis.sourceData, call.sourceDoc, call.dirtyFeedbackDoc} :
       d # Null => DocumentHolds(d)
  /\ analysis.sourceData # Null =>
       analysis.sourceData.fields.name = Str(analysis.sourceDoc.name)

\* The answer sheet was returned as text and the faculty notes as base64 data.
C15_Witness ==
  /\ analysis.stage = "calling"
  /\ call.sourceDoc # Null /\ "text" \in DOMAIN call.sourceDoc.fields
  /\ call.dirtyFeedbackDoc # Null /\ "base64" \in DOMAIN call.dirtyFeedbackDoc.fields

\* The response is an envelope {success: false, error: E} with E a non-empty
\* string.
IsErrorEnvelope(r) ==
  /\ IsJSONText(r.body)
  /\ r.body.json.type = "object"
  /\ "success" \in DOMAIN BodyFields(r) /\ BodyFields(r).success = Bool(FALSE)
  /\ "error" \in DOMAIN BodyFields(r) /\ NonEmptyString(BodyFields(r).error)

\* C16: whenever the endpoint answers {success: false, error: E} with E a
\* non-empty string, generateStructuredFeedback rejects with an Error whose
\* message is E, and when handleAnalyze has finished the error on screen is E.
C16_ErrorPropagation ==
  IsErrorEnvelope(received) =>
    /\ result = [state |-> "rejected", value |-> ErrorObj("Error", BodyFields(received).error.s)]
    /\ analysis.stage = "idle" => error = BodyFields(received).error

\* The generation API rejected with "quota exceeded" and the analysis ended
\* with that message on screen.
C16_Witness ==
  /\ analysis.stage = "idle"
  /\ IsErrorEnvelope(received)
  /\ BodyFields(received) = [success |-> Bool(FALSE), error |-> Str("quota exceeded")]
  /\ error = Str("quota exceeded")

\* C20: whenever an analysis started by handleAnalyze fails, for whatever
\* reason (a file that cannot be processed, a failed request, an error
\* envelope, malformed output of the model), handleAnalyze leaves isLoading
\* false, loadingStep empty, error a non-empty string, the report as it was
\* before the analysis, and the view on the dashboard.
C20_UniformFailureState ==
  [][ ( /\ analysis.stage # "idle"
        /\ analysis'.stage = "idle"
        /\ ~(analysis.stage = "calling" /\ cpc = "resolved") )
      => /\ isLoading' = FALSE
         /\ loadingStep' = NoStep
         /\ NonEmptyString(error')
         /\ report' = analysis.reportBefore
         /\ report' = report
         /\ view = "dashboard" /\ view' = "dashboard" ]_vars

\* The FileReader reported an error, which has no message: the analysis ended
\* before any request was sent.
C20_Witness ==
  /\ analysis.stage = "idle"
  /\ fetches = 0
  /\ error = Str("An error occurred during evaluation.")
  /\ ~isLoading
  /\ loadingStep = NoStep
  /\ view = "dashboard"
  /\ report = Null

(***************************************************************************)
(* Properties of the client's handling of a success envelope.              *)
(***************************************************************************)
\* The output is a text that, trimmed, does not start with three backticks.
Unfenced == modelOutput # Undefined /\ ~StartsWith(Trim(modelOutput.chars), Fence)

\* C18 as stated: for every output that, trimmed, does not start with three
\* backticks, the text passed to the JSON parser is the trimmed output
\* unchanged; and the strip step applied to an already stripped output
\* returns it unchanged.
C18_Original ==
  /\ (spc # "answered" /\ Unfenced) => cleanOutput = Trim(modelOutput.chars)
  /\ spc = "stripped again" => strippedAgain = cleanOutput

\* C18 as amended: for every output that, trimmed, does not start with three
\* backticks, the text passed to the JSON parser is the trimmed output
\* unchanged, the promise settles as the parse of that text decides, and the
\* strip step applied to that text again returns it unchanged.
C18_UnfencedUnchanged ==
  (spc # "answered" /\ Unfenced) =>
    /\ cleanOutput = Trim(modelOutput.chars)
    /\ reportData.ok = JSONParseText(Trim(modelOutput.chars)).ok
    /\ reportData.ok => result = [state |-> "resolved", value |-> JSONParseText(Trim(modelOutput.chars)).value]
    /\ spc = "stripped again" => strippedAgain = cleanOutput

\* An unfenced output with whitespace around it: the whitespace is trimmed,
\* the text is parsed, and the second strip changes nothing.
C18_Witness ==
  /\ spc = "stripped again"
  /\ modelOutput = Text(<<NL, "[", "]", " ">>)
  /\ cleanOutput = <<"[", "]">>
  /\ result = [state |-> "resolved", value |-> Arr(<<>>)]
  /\ strippedAgain = cleanOutput

\* The output is a fence tagged js; the output is a fence followed by text.
OtherTag == modelOutput # Undefined /\ StartsWith(modelOutput.chars, Fence \o <<"j", "s", NL>>)

TrailingText ==
  /\ modelOutput # Undefined
  /\ StartsWith(modelOutput.chars, Fence)
  /\ EndsWith(modelOutput.chars, Fence \o <<"o", "k">>) \/ EndsWith(modelOutput.chars, Fence \o <<NL, "o", "k">>)

\* C19: for every success envelope whose output, after the fences are
\* stripped, is not valid JSON, generateStructuredFeedback rejects with the
\* message "AI returned an invalid report format. Please try again." and
\* returns no report; a fence with another language tag, text after the
\* closing fence and a missing output field are such cases.
C19_InvalidFormatRejected ==
  spc # "answered" =>
    /\ (modelOutput = Undefined \/ ~JSONParseText(cleanOutput).ok) =>
         /\ result = [state |-> "rejected",
                      value |-> ErrorObj("Error", "AI returned an invalid report format. Please try again.")]
         /\ ~reportData.ok
    /\ (modelOutput = Undefined \/ OtherTag \/ TrailingText) => result.state = "rejected"

\* A JSON text in a fence tagged js has been received: the tag stays in the
\* stripped text and the promise is rejected.
C19_Witness ==
  /\ spc = "settled"
  /\ modelOutput = Text(Fence \o <<"j", "s", NL, "[", "1", "]", NL>> \o Fence)
  /\ cleanOutput = <<"j", "s", NL, "[", "1", "]">>
  /\ result.state = "rejected"

(***************************************************************************)
(* Properties of the handler: the order of its checks.                     *)
(***************************************************************************)
MissingApiKeyResponse ==
  [statusCode |-> 200,
   body |-> JSONText(Obj([success |-> Bool(FALSE),
                          error |-> Str("GEMINI_API_KEY (API_KEY) is not configured in the environment.")]))]

\* The body is a non-empty text that JSON.parse rejects.
UnparseableBody(ev) == Truthy(ev.body) /\ ~IsJSONText(ev.body)

\* C23: validation precedes all side effects and runs in the order method,
\* API key, body parse, prompt.  The timer and the generation call exist only
\* for invocations whose request passed every check; an invocation whose
\* request fails a check has returned one error envelope and has no timer, no
\* generation call and no race; a request that is not a POST gets the 405
\* whatever else is wrong, a POST without an API key gets the API-key error
\* whatever its body (an unparseable body included), and a POST with an API
\* key and an unparseable body gets the parser's error, not the prompt error.
C23_ValidationFirst ==
  \A i \in Invocations :
    /\ (timer[i].state # "none" \/ generation[i].state # "none" \/ genCalls[i] > 0)
         => PassesValidation(event[i])
    /\ (pc[i] # "idle" /\ ~PassesValidation(event[i])) =>
         /\ pc[i] = "returned"
         /\ Len(responses[i]) = 1
         /\ IsErrorEnvelope(responses[i][1])
         /\ timer[i] = NoTimer /\ generation[i] = NoGeneration /\ genCalls[i] = 0
         /\ race[i] = "pending"
         /\ event[i].httpMethod # "POST" => responses[i][1] = MethodNotAllowedResponse
         /\ (event[i].httpMethod = "POST" /\ ~Truthy(apiKey))
              => responses[i][1] = MissingApiKeyResponse
         /\ (event[i].httpMethod = "POST" /\ Truthy(apiKey) /\ UnparseableBody(event[i]))
              => /\ responses[i][1].statusCode = 200
                 /\ BodyFields(responses[i][1]).error = Str("Unexpected end of JSON input")
         /\ (event[i].httpMethod = "POST" /\ Truthy(apiKey) /\ MissingPrompt(event[i]))
              => responses[i][1] = MissingPromptResponse

\* A POST with no API key configured and a body that is not JSON has been
\* answered with the API-key error.
C23_Witness ==
  \E i \in Invocations :
    /\ event[i] = [httpMethod |-> "POST", body |-> Str("{not json")]
    /\ ~Truthy(apiKey)
    /\ responses[i] = <<MissingApiKeyResponse>>
    /\ timer[i] = NoTimer

(***************************************************************************)
(* Properties of the prompt.                                               *)
(***************************************************************************)
\* The document has a non-empty text; it has no such text but non-empty
\* base64 data and a non-empty MIME type.
HasText(d) ==
  /\ d.type = "object" /\ "text" \in DOMAIN d.fields
  /\ d.fields.text # Str("")

HasInlineData(d) ==
  /\ d.type = "object" /\ ~HasText(d)
  /\ {"base64", "mimeType"} \subseteq DOMAIN d.fields
  /\ d.fields.base64 # Str("") /\ d.fields.mimeType # Str("")

\* How many parts a document gives: one if it has content, none otherwise.
PartCount(d) == IF HasText(d) \/ HasInlineData(d) THEN 1 ELSE 0

\* The part at position k carries the document d under the given label.
IsPartOf(part, d, label) ==
  IF HasText(d)
    THEN part = [text |-> [label |-> label, content |-> d.fields.text.s]]
    ELSE part = [inlineData |-> [data |-> d.fields.base64.s, mimeType |-> d.fields.mimeType.s]]

CarriesSource(part, d) ==
  \/ /\ "text" \in DOMAIN part
     /\ part.text.label = "Student Paper Text: "
     /\ "text" \in DOMAIN d.fields /\ part.text.content = d.fields.text.s
  \/ /\ "inlineData" \in DOMAIN part
     /\ "base64" \in DOMAIN d.fields /\ part.inlineData.data = d.fields.base64.s

\* C25: the student answer sheet always reaches the model.  Every request
\* sent for an analysis contains a part that carries the content of the
\* document processFile returned for the answer sheet, a DOCX whose text is
\* empty and a file whose MIME type is empty included.
C25_SourceReachesModel ==
  (cpc # "idle" /\ analysis.stage = "calling") =>
    \E k \in DOMAIN RequestFields.prompt.items :
      CarriesSource(RequestFields.prompt.items[k], analysis.sourceData)

(***************************************************************************)
(* Properties of processFile: the intake of a PDF.                         *)
(***************************************************************************)
\* The file processFile is working on.
CurrentFile ==
  IF analysis.stage = "source"
    THEN analysis.sourceDoc
    ELSE FacultyToProcess(analysis.evalMode, analysis.dirtyFeedbackDoc)

ProcessingPdf ==
  /\ analysis.stage \in {"source", "faculty"}
  /\ IsPdf(CurrentFile) /\ ~IsDocx(CurrentFile)

\* C29 as stated: for a PDF file, processFile returns the extracted text if
\* and only if extraction succeeds and the trimmed text is longer than 150
\* characters; a trimmed length of 150 or less, or an extraction error, falls
\* back to the base64 representation and never fails the analysis.
C29_Original ==
  [][ProcessingPdf => analysis'.stage # "idle"]_vars

\* C29 as amended: for a PDF file, processFile returns the extracted text if
\* and only if extraction succeeds and the trimmed text is strictly longer
\* than 150 characters.  With a trimmed length of 150 or less, or an
\* extraction error, processFile goes on to read the file with the
\* FileReader, and the extraction error itself never fails the analysis; if
\* the FileReader loads the file, processFile returns the base64 data with
\* the file's MIME type; if the FileReader reports an error, the analysis
\* fails with the fallback message and no request is sent.
C29_PdfThreshold ==
  /\ [](analysis.at = "pdf" =>
          /\ ProcessingPdf
          /\ \A settled \in StageOutcomes("pdf") :
               LET r == ProcessFileStage(CurrentFile, "pdf", settled)
               IN IF settled.kind = "text" /\ settled.trimmedLength >= 151
                    THEN r = Returned(Obj([text |-> Str(settled.text), name |-> Str(CurrentFile.name),
                                           isDocx |-> Bool(FALSE)]))
                    ELSE r = Awaiting("reader"))
  /\ [][ (analysis.at = "pdf" /\ analysis' # analysis) =>
           /\ isLoading' /\ error' = error /\ analysis'.stage # "idle"
           /\ \/ /\ analysis'.at = "reader" /\ analysis'.stage = analysis.stage
                 /\ loadingStep' = Step("Encoding Visual Data: ", CurrentFile.name)
                 /\ fetches' = fetches
              \/ (IF analysis.stage = "source" THEN analysis'.sourceData ELSE call'.dirtyFeedbackDoc)
                   = Obj([text |-> Str("[P1] 151 characters"), name |-> Str(CurrentFile.name),
                          isDocx |-> Bool(FALSE)]) ]_vars
  /\ [][ (ProcessingPdf /\ analysis.at = "reader" /\ analysis' # analysis) =>
           \/ /\ analysis'.stage # "idle"
              /\ (IF analysis.stage = "source" THEN analysis'.sourceData ELSE call'.dirtyFeedbackDoc)
                   = Obj([base64 |-> Str("QUJD"), mimeType |-> Str(CurrentFile.type),
                          name |-> Str(CurrentFile.name), isDocx |-> Bool(FALSE)])
           \/ /\ analysis'.stage = "idle"
              /\ error' = Str("An error occurred during evaluation.")
              /\ fetches' = fetches ]_vars

\* A PDF chosen as the answer sheet went to the FileReader and came back as
\* base64 data with the MIME type of a PDF.
C29_Witness ==
  /\ analysis.stage = "calling"
  /\ analysis.sourceDoc.name = "paper.pdf"
  /\ analysis.sourceData = Obj([base64 |-> Str("QUJD"), mimeType |-> Str("application/pdf"),
                                name |-> Str("paper.pdf"), isDocx |-> Bool(FALSE)])

(***************************************************************************)
(* Properties of the App: how an analysis ends.                            *)
(***************************************************************************)
\* handleAnalyze finishes in this step.
AnalysisEnds == analysis.stage # "idle" /\ analysis'.stage = "idle"

\* C24: every analysis ends visibly.  When handleAnalyze has finished, for an
\* analysis that passed the upload checks, exactly one of the following
\* holds: the report is non-null and the view is 'report', or the error is a
\* non-empty string; whatever valid JSON value the model returned.
C24_EndsVisibly ==
  [][AnalysisEnds =>
       /\ ~isLoading'
       /\ (report' # Null /\ view' = "report") # NonEmptyString(error')]_vars

\* The New Analysis button is clicked in this step.
NewAnalysisClicked == view = "report" /\ view' = "dashboard"

\* C28: in every settled UI state, for any sequence of analyses and New
\* Analysis clicks, the view is 'report' if and only if the report is
\* non-null; New Analysis resets the report to null and the view to
\* 'dashboard' and leaves the selected files and the evaluation mode
\* unchanged.
C28_ViewReportInvariant ==
  /\ []((view = "report") <=> (report # Null))
  /\ [][NewAnalysisClicked =>
          /\ report' = Null
          /\ sourceDoc' = sourceDoc /\ dirtyFeedbackDoc' = dirtyFeedbackDoc
          /\ evalMode' = evalMode]_vars

(***************************************************************************)
(* Properties of the App: one analysis at a time.                          *)
(***************************************************************************)
\* A run of handleAnalyze begins in this step: it is at its first await.
RunBegins ==
  /\ analysis'.stage = "source"
  /\ analysis.stage # "source" \/ cpc' # cpc \/ fetches' # fetches \/ ~isLoading

\* C27: at most one analysis is in flight.  For any sequence of file
\* selections, mode switches, Generate and New Analysis clicks, a run of
\* handleAnalyze begins only while isLoading is false and no run is under
\* way; isLoading is true exactly while a run is under way; a request is sent
\* only when none is outstanding, and a request is outstanding only for the
\* run under way; and the report and the error change only when the run
\* under way begins or ends, or by New Analysis, the report being the result
\* of the request that this run sent.
C27_OneAnalysisInFlight ==
  /\ [](isLoading <=> analysis.stage # "idle")
  /\ [](cpc = "fetching" => (isLoading /\ analysis.stage = "calling"))
  /\ [](analysis.stage = "calling" =>
          call = [sourceDoc |-> analysis.sourceData, dirtyFeedbackDoc |-> call.dirtyFeedbackDoc,
                  mode |-> analysis.evalMode])
  /\ [][ /\ RunBegins => (~isLoading /\ analysis.stage = "idle" /\ cpc' = "idle")
         /\ fetches' # fetches => (cpc # "fetching" /\ fetches' = fetches + 1)
         /\ (report' # report \/ error' # error) =>
              \/ RunBegins /\ report' = report
              \/ AnalysisEnds /\ (report' # report => (cpc = "resolved" /\ report' = result.value))
              \/ NewAnalysisClicked /\ ~isLoading ]_vars

\* The first analysis has ended and the request of the second one is
\* outstanding.
C27_Witness ==
  /\ fetches = 2
  /\ cpc = "fetching"
  /\ isLoading
  /\ analysis.stage = "calling"
  /\ error = Null

(***************************************************************************)
(* Properties of the App: the order of the steps of an analysis.           *)
(***************************************************************************)
\* The stages of handleAnalyze and the awaits of processFile, in order.
StageOrder(stage) ==
  CASE stage = "idle" -> 0 [] stage = "source" -> 1 [] stage = "faculty" -> 2 [] OTHER -> 3

AwaitOrder(at) ==
  CASE at = "docx" -> 1 [] at = "pdf" -> 1 [] at = "reader" -> 2 [] OTHER -> 0

\* C21: in every analysis the steps occur in the order file processing (the
\* source document, then the faculty notes), prompt assembly, endpoint call,
\* fence stripping and JSON parsing, report display.  Each step runs at most
\* once; no request is sent before every file to be processed has been
\* processed; the request carries the prompt built from the processed files;
\* the report is set only after a successful parse, to the parsed value; and
\* a failure at any step ends the analysis without any later step.
C21_PipelineOrder ==
  /\ [](analysis.stage \in {"source", "faculty"} =>
          (cpc = "idle" /\ request = NoRequest /\ pc[1] = "idle" /\ received = NoResponse))
  /\ [](received # NoResponse => (Finished(1) /\ cpc \in {"resolved", "rejected"}))
  /\ [][ /\ analysis'.stage # "idle" =>
              \/ StageOrder(analysis'.stage) > StageOrder(analysis.stage)
              \/ /\ analysis'.stage = analysis.stage
                 /\ AwaitOrder(analysis'.at) >= AwaitOrder(analysis.at)
                 /\ analysis'.sourceData = analysis.sourceData
         /\ fetches' # fetches =>
              /\ analysis.stage \in {"source", "faculty"} /\ analysis'.stage = "calling"
              /\ analysis'.sourceData # Null
              /\ (analysis.stage = "source") = (CurrentFile = analysis.sourceDoc /\
                    FacultyToProcess(analysis.evalMode, analysis.dirtyFeedbackDoc) = NoFile)
              /\ analysis.stage = "faculty" => call'.dirtyFeedbackDoc # Null
              /\ request' = FetchRequest(analysis'.sourceData, call'.dirtyFeedbackDoc, analysis.evalMode)
              /\ pc'[1] = "idle" /\ fetches' = fetches + 1
         /\ analysis.stage = "calling" => (fetches' = fetches /\ request' = request)
         /\ (report' # report /\ report' # Null) =>
              /\ analysis.stage = "calling" /\ AnalysisEnds
              /\ cpc = "resolved" /\ Finished(1)
              /\ BodyFields(received).success = Bool(TRUE)
              /\ ParseReport(Get(received.body.json, "output")) = [ok |-> TRUE, value |-> report']
         /\ view' # view => (NewAnalysisClicked \/ (AnalysisEnds /\ cpc = "resolved" /\ report' # Null))
         /\ (AnalysisEnds /\ analysis.stage \in {"source", "faculty"}) =>
              /\ NonEmptyString(error')
              /\ fetches' = fetches /\ cpc' = "idle" /\ pc'[1] = "idle"
              /\ report' = report /\ view' = view
         /\ (AnalysisEnds /\ cpc = "rejected") =>
              (NonEmptyString(error') /\ report' = report /\ view' = view) ]_vars

\* An analysis in 'with-manual' mode went through every step: both files
\* processed, one request, the output parsed, the report on screen.
C21_Witness ==
  /\ analysis.stage = "idle"
  /\ fetches = 1
  /\ call.mode = "with-manual" /\ call.dirtyFeedbackDoc # Null
  /\ cpc = "resolved"
  /\ report = EmptyObject
  /\ view = "report"

(***************************************************************************)
(* Properties of the App: loading ends.                                    *)
(***************************************************************************)
\* C26: loading always ends.  Every analysis started by handleAnalyze
\* reaches a state with isLoading false, whether reading a file, extracting
\* its text, the HTTP request and the parsing succeed or fail, the case where
\* the FileReader reports a read error included, provided the HTTP request
\* settles.
C26_LoadingEnds == isLoading ~> ~isLoading

\* An analysis of a file that goes to the FileReader at once has ended before
\* its request was sent, with the message shown for an error that has none:
\* the FileReader's error event.
C26_Witness ==
  /\ sourceDoc.name = "scan"
  /\ evalMode = "without-manual"
  /\ fetches = 0
  /\ analysis.stage = "idle"
  /\ ~isLoading
  /\ error = Str("An error occurred during evaluation.")

\* The marks of a question as the sum counts them: the value of a number or
\* of a numeric string, 0 for a missing or non-numeric value.
CountedMarks(q) ==
  LET marks == Get(q, "marks")
  IN CASE marks.type = "number" -> DigitsValue(marks.digits)
       [] /\ marks.type = "string"
          /\ marks.chars # <<>>
          /\ \A i \in 1..Len(marks.chars) : IsDecimalDigit(marks.chars[i]) -> DigitsValue(marks.chars)
       [] OTHER -> 0

RECURSIVE SumOfCountedMarks(_)
SumOfCountedMarks(questions) ==
  IF questions = <<>> THEN 0
  ELSE CountedMarks(Head(questions)) + SumOfCountedMarks(Tail(questions))

\* The sum over the report's questions, 0 when the report has no list.
SumOfMarks(r) ==
  IF Get(r, "questions").type = "array" THEN SumOfCountedMarks(Get(r, "questions").items) ELSE 0

\* C30: for every report, the total shown in the report table and the total
\* written to the Word export equal the sum over the questions of the
\* question's marks, a missing or non-numeric marks value counting as 0 and
\* an absent questions list as 0, whatever the report's totalScore is.
C30_DisplayedTotal ==
  /\ reportTable.kind = "rendered" => reportTable.total = SumOfMarks(report)
  /\ wordExport.kind # "none" =>
       /\ wordExport.kind = "downloaded"
       /\ wordExport.total = SumOfMarks(report)
====
